---- MODULE Spec2Model ----
(***************************************************************************)
(* Model of the bounded iterative orchestration in ai_coding_agent:        *)
(*   - the single-agent turn loop (agent/core.py, tools/registry.py),      *)
(*     specification Spec                                                  *)
(*   - the four multi-agent strategies (orchestrator/async_executor.py,    *)
(*     orchestrator/workflow.py): sequential, specification SpecSeq;       *)
(*     parallel, SpecPar; round-robin, SpecRR; continuous, SpecCont, and   *)
(*     SpecContFair with the scheduling the run can count on               *)
(*   - the workflow engine (orchestrator/workflow.py): configurations      *)
(*     read from dictionaries, the agent roles built from them and the     *)
(*     stop condition they carry, SpecWf                                   *)
(*   - the session store (agent/session.py): compaction of short           *)
(*     conversations by hand, SpecSession; a long conversation with        *)
(*     auto-compaction, SpecLong; save and load, SpecStore                 *)
(*                                                                         *)
(* Steps are the stretches of code between two awaits: a request to the    *)
(* provider, a chunk of a stream, the confirmation callback and the tool   *)
(* handler each return (or raise) in a step of their own.  The caller of   *)
(* process_message iterates the generator to its end, and one caller owns  *)
(* the agent: reset, add_context and a new task happen between tasks.      *)
(*                                                                         *)
(* Representation                                                          *)
(*   text        a sequence of tokens, so that "Error: " + error is        *)
(*               <<"Error: ", error>> and a prefix test is Head(..)        *)
(*   None        the token sequence NoneText for an optional text, the     *)
(*               string "<None>" for an optional name, the number 0 for an *)
(*               optional tool_call_id, <<>> for the optional tool_calls   *)
(*               list (the code stores None exactly when the list is       *)
(*               empty)                                                    *)
(*   a stream    delivers the content and the tool calls of one response   *)
(*               in pieces; it ends once the content is complete           *)
(*   templates   the sequence of their placeholders; each strategy's agent *)
(*               mapping uses the placeholders that strategy passes to     *)
(*               format()                                                  *)
(*   conditions  Stop Conditions carry the value their type needs          *)
(*   session     the store's values carry their Python type, a str is a    *)
(*               sequence of pieces with their lengths, a file holds the   *)
(*               JSON value written to it                                  *)
(***************************************************************************)
EXTENDS Integers, Sequences, FiniteSets, TLC

\* ---------------------------------------------------------------- bounds
\* the longest tool-call list one provider response carries
MaxCallsPerResponse == 2
\* the most chunks one provider stream delivers
MaxChunks == 2
\* process_message / add_context are accepted while the history is this short
MaxHistory == 2

\* ------------------------------------------------------------- vocabulary
\* the configurations an agent is constructed with: AgentConfig.max_iterations
\* and AgentConfig.max_tool_calls_per_turn
IterationLimits == {1, 2}
ToolCallCaps == {1, 2}

NoneText == <<"<None>">>
SystemPrompt == <<"S">>
UserTexts == {<<"u">>}
ContextTexts == {<<"ctx">>}
ContextRoles == {"system"}
\* the content of a provider response: a text of two tokens, which a stream
\* can deliver in pieces
Contents == {<<"c1", "c2">>}

\* names a provider may put in a tool call: run_command is registered (and
\* requires confirmation), nosuch is not registered
ToolNames == {"run_command", "nosuch"}
RegisteredTools == {"run_command"}

Message(role, content, name, tool_calls, tool_call_id) ==
    [role |-> role, content |-> content, name |-> name,
     tool_calls |-> tool_calls, tool_call_id |-> tool_call_id]

ToolResult(success, output, error) ==
    [success |-> success, output |-> output, error |-> error]

\* ToolRegistry.get: the definition registered under a name, or None
RegistryGet(name) ==
    IF name \in RegisteredTools
    THEN [name |-> name, requires_confirmation |-> (name = "run_command")]
    ELSE [name |-> "<None>", requires_confirmation |-> FALSE]

\* the tool calls a response can carry: ids are unique within the response
ToolCallLists(iter) ==
    UNION { { [i \in 1..n |-> [id |-> iter * 10 + i, name |-> f[i]]] :
              f \in [1..n -> ToolNames] } : n \in 0..MaxCallsPerResponse }

\* ------------------------------------------------------------------ state
VARIABLES
    \* AgentState (agent/core.py)
    messages, iteration, tool_calls_this_turn, is_complete, last_response,
    \* AgentConfig
    max_iterations, max_tool_calls_per_turn, confirm_dangerous_tools,
    \* position of the process_message generator and its locals
    pc, stream, tool_calls, idx, full_content, all_tool_calls, chunks,
    \* observation of the run: completion requests of the task, invocations in
    \* flight, whether the cap marker was yielded, how the task ended, last step
    requests, running, confirmed, cap_marker, outcome, event,
    \* execute_sequential (orchestrator/async_executor.py): its arguments, its
    \* locals, its position and what it returned
    agent_order, behaviour, ctx, current_input, results, seq_i, seq_pc, seq_result,
    \* observation: the provider invocations made, in order
    invoked,
    \* execute_parallel: its arguments, the next task of the gather to take its
    \* first step, the value each run_agent returned, the positions in the
    \* order they completed, the invocations made, position and returned value
    agent_names, par_behaviour, merge_strategy, par_next, par_results,
    par_completed, par_invoked, par_pc, par_result,
    \* execute_round_robin: its arguments, its loop variables and locals, its
    \* position and returned value; observation: the invocations made and the
    \* number of calls of stop_condition
    rr_order, max_rounds, stop_conditions, round_num, rr_i, rr_pc, rr_results,
    rr_current_input, history, rr_result, rr_invoked, rr_checks,
    \* execute_continuous: the orchestrator's agents, max_iterations and
    \* task_queue, the stop conditions behind stop_condition, the consumer's
    \* position, item and results, the returned value; observation: the
    \* invocations made, the items put, and what ended the consumer loop
    cont_agents, cont_max_iterations, cont_stop, task_queue, cont_pc, item,
    cont_results, cont_result, cont_invoked, cont_put, cont_end,
    \* SessionManager (agent/session.py): its max_tokens, the session at hand,
    \* the files of storage_dir by session id, what the last load returned;
    \* observation: the last call made on the manager, with its arguments
    max_tokens, session, files, loaded, sm_call,
    \* WorkflowEngine (orchestrator/workflow.py): its providers, the workflow
    \* loaded, the role mapping built for it, the position of execute_workflow;
    \* observation: the definition the workflow was loaded from and what
    \* check_stop last answered
    providers, workflow, roles, wf_pc, definition, wf_check

agentVars == <<messages, iteration, tool_calls_this_turn, is_complete,
               last_response, max_iterations, max_tool_calls_per_turn,
               confirm_dangerous_tools,
               pc, stream, tool_calls, idx, full_content, all_tool_calls,
               chunks, requests, running, confirmed, cap_marker,
               outcome, event>>

config == <<max_iterations, max_tool_calls_per_turn, confirm_dangerous_tools>>

seqVars == <<agent_order, behaviour, ctx, current_input, results, seq_i, seq_pc,
             seq_result, invoked>>

parVars == <<agent_names, par_behaviour, merge_strategy, par_next, par_results,
             par_completed, par_invoked, par_pc, par_result>>

rrVars == <<rr_order, max_rounds, stop_conditions, round_num, rr_i, rr_pc,
            rr_results, rr_current_input, history, rr_result, rr_invoked,
            rr_checks>>

contVars == <<cont_agents, cont_max_iterations, cont_stop, task_queue, cont_pc,
              item, cont_results, cont_result, cont_invoked, cont_put, cont_end>>

sessVars == <<max_tokens, session, files, loaded, sm_call>>

wfVars == <<providers, workflow, roles, wf_pc, definition, wf_check>>

vars == <<agentVars, seqVars, parVars, rrVars, contVars, sessVars, wfVars>>

\* what the steps of one component leave alone: the other components
orchVars == <<seqVars, parVars, rrVars, contVars, sessVars, wfVars>>
seqFrame == <<agentVars, parVars, rrVars, contVars, sessVars, wfVars>>
parFrame == <<agentVars, seqVars, rrVars, contVars, sessVars, wfVars>>
rrFrame == <<agentVars, seqVars, parVars, contVars, sessVars, wfVars>>
contFrame == <<agentVars, seqVars, parVars, rrVars, sessVars, wfVars>>
sessFrame == <<agentVars, seqVars, parVars, rrVars, contVars, wfVars>>
wfFrame == <<agentVars, seqVars, parVars, rrVars, contVars, sessVars>>

\* the agent is constructed with a confirm_callback; without one the code
\* behaves as with confirm_dangerous_tools = False
has_confirm_callback == TRUE

\* CodingAgent._init_conversation
InitConversation == << Message("system", SystemPrompt, "<None>", <<>>, 0) >>

\* AgentState() followed by _init_conversation()
InitAgent ==
    /\ messages = InitConversation
    /\ iteration = 0
    /\ tool_calls_this_turn = 0
    /\ is_complete = FALSE
    /\ last_response = NoneText
    /\ max_iterations \in IterationLimits
    /\ max_tool_calls_per_turn \in ToolCallCaps
    /\ confirm_dangerous_tools \in BOOLEAN
    /\ pc = "idle"
    /\ stream = FALSE
    /\ tool_calls = <<>>
    /\ idx = 0
    /\ full_content = <<>>
    /\ all_tool_calls = <<>>
    /\ chunks = 0
    /\ requests = 0
    /\ running = <<>>
    /\ confirmed = "unasked"
    /\ cap_marker = FALSE
    /\ outcome = "none"
    /\ event = "init"

\* ------------------------------------------------- ToolRegistry.execute
\* the result for a name that is not registered
UnknownToolResult(name) == ToolResult(FALSE, <<>>, <<"Unknown tool: ", name>>)

\* the result when the confirmation callback declines
CancelledResult == ToolResult(FALSE, <<>>, <<"Tool execution cancelled by user">>)

\* what the handler can do: return text, return a failed ToolResult, raise
HandlerOutcomes == {"ok", "fail", "raise"}

\* the try/except around the handler and the normalisation of its result
HandlerResult(o) ==
    CASE o = "ok"    -> ToolResult(TRUE, <<"out">>, NoneText)
      [] o = "fail"  -> ToolResult(FALSE, <<>>, <<"err">>)
      [] o = "raise" -> ToolResult(FALSE, <<>>, <<"Tool execution failed: ", "e">>)

\* the confirmation is asked for when the tool requires it and a callback is passed
NeedsConfirmation(tool, callback) == tool.requires_confirmation /\ callback

\* variant: the answer of the callback is ignored
ConfirmDeclinedIgnored(answer) == FALSE

\* `if not confirmed:` the call is cancelled
ConfirmDeclined(answer) == ~answer

\* ------------------------------------------------------ CodingAgent steps
\* the callback handed to tools.execute
ConfirmCallbackPassed == confirm_dangerous_tools /\ has_confirm_callback

\* the tool message appended for a call
ToolMessage(tc, result) ==
    Message("tool",
            IF result.success THEN result.output ELSE <<"Error: ">> \o result.error,
            tc.name, <<>>, tc.id)

\* variant: the loop test admits one more iteration
LoopContinuesOneMore(done, iter) == ~done /\ iter <= max_iterations

\* the loop test of process_message
LoopContinues(done, iter) == ~done /\ iter < max_iterations

\* variant: the cap test lets one more call through
CapReachedLate(n) == n > max_tool_calls_per_turn

\* the cap test at the head of the tool loop
CapReached(n) == n >= max_tool_calls_per_turn

\* variant: the final response is stored but the task is not marked complete
TurnWithoutToolsNotComplete(content) == [is_complete |-> FALSE, last_response |-> content]

\* the else branch of a turn: a response without tool calls completes the task
TurnWithoutTools(content) == [is_complete |-> TRUE, last_response |-> content]

\* variant: the invocation is started but not awaited
AwaitingNothing(stage, i) == [pc |-> "for", idx |-> i + 1]

\* `await self.tools.execute(...)`: the loop is suspended at call i until the
\* awaited stage returns
Awaiting(stage, i) == [pc |-> stage, idx |-> i]

\* variant: the partial content of the failed request is recorded
MessagesOnProviderFaultPartial(msgs, partial) ==
    Append(msgs, Message("assistant", partial, "<None>", <<>>, 0))

\* a fault of the provider call leaves the history as it is
MessagesOnProviderFault(msgs, partial) == msgs

\* variant: the context message is put in front
AddContextMessagesInFront(msgs, m) == <<m>> \o msgs

\* add_context appends
AddContextMessages(msgs, m) == Append(msgs, m)

\* the texts a stream can have delivered so far: the beginnings of a content
IsPrefixOfContent(t) ==
    \E c \in Contents : Len(t) <= Len(c) /\ t = SubSeq(c, 1, Len(t))

\* the pieces of content one chunk can carry
ChunkContents ==
    {<<>>} \cup UNION { { SubSeq(c, i, j) : i \in 1..Len(c), j \in 1..Len(c) } : c \in Contents }

\* variant: the content of a chunk replaces what the stream delivered before
AccumulatedLastChunk(full, piece) == piece

\* `full_content += chunk.content`
Accumulated(full, piece) == full \o piece

\* variant: a call to a name that is not registered is not counted
AttemptedKnownOnly(n, tool) == IF tool.name = "<None>" THEN n ELSE n + 1

\* `self.state.tool_calls_this_turn += 1`, before the call is made
Attempted(n, tool) == n + 1

ClearTurnLocals ==
    /\ full_content' = <<>>
    /\ all_tool_calls' = <<>>
    /\ chunks' = 0

ProcessMessage(user_message, s) ==
    /\ pc = "idle"
    /\ Len(messages) <= MaxHistory
    /\ messages' = Append(messages, Message("user", user_message, "<None>", <<>>, 0))
    /\ iteration' = 0
    /\ tool_calls_this_turn' = 0
    /\ is_complete' = FALSE
    /\ stream' = s
    /\ pc' = "while"
    /\ requests' = 0
    /\ cap_marker' = FALSE
    /\ outcome' = "none"
    /\ event' = "process_message"
    /\ UNCHANGED <<last_response, config,
                   tool_calls, idx, full_content, all_tool_calls, chunks,
                   running, confirmed>>
    /\ UNCHANGED orchVars

WhileLoop ==
    /\ pc = "while"
    /\ IF LoopContinues(is_complete, iteration)
       THEN /\ iteration' = iteration + 1
            /\ requests' = requests + 1
            /\ pc' = "provider"
            /\ event' = "request"
            /\ UNCHANGED <<outcome, stream>>
       ELSE /\ pc' = "idle"
            /\ outcome' = "returned"
            /\ event' = "return"
            /\ stream' = FALSE
            /\ UNCHANGED <<iteration, requests>>
    /\ UNCHANGED <<messages, tool_calls_this_turn, is_complete, last_response,
                   config,
                   tool_calls, idx, full_content, all_tool_calls, chunks,
                   running, confirmed, cap_marker>>
    /\ UNCHANGED orchVars

\* the tail shared by _process_turn and _process_turn_streaming: append the
\* assistant message, then run the tools or complete
AssistantTurn(content, tcs) ==
    /\ messages' = Append(messages, Message("assistant", content, "<None>", tcs, 0))
    /\ IF tcs # <<>>
       THEN /\ pc' = "for"
            /\ tool_calls' = tcs
            /\ idx' = 1
            /\ event' = "tool_response"
            /\ UNCHANGED <<is_complete, last_response>>
       ELSE /\ is_complete' = TurnWithoutTools(content).is_complete
            /\ last_response' = TurnWithoutTools(content).last_response
            /\ pc' = "while"
            /\ tool_calls' = <<>>
            /\ idx' = 0
            /\ event' = "final_response"
    /\ ClearTurnLocals
    /\ UNCHANGED <<iteration, tool_calls_this_turn, config,
                   stream, requests, running, confirmed,
                   cap_marker, outcome>>
    /\ UNCHANGED orchVars

ProviderComplete(content, tcs) ==
    /\ pc = "provider"
    /\ ~stream
    /\ AssistantTurn(content, tcs)

StreamChunk(content, tcs, finish_reason) ==
    /\ pc = "provider"
    /\ stream
    /\ chunks < MaxChunks
    /\ Len(all_tool_calls) + Len(tcs) <= MaxCallsPerResponse
    /\ IsPrefixOfContent(full_content \o content)
    /\ finish_reason => full_content \o content \in Contents
    /\ LET fc == Accumulated(full_content, content)
           atc == all_tool_calls \o
                  [i \in 1..Len(tcs) |->
                     [id |-> iteration * 10 + Len(all_tool_calls) + i, name |-> tcs[i]]]
       IN IF finish_reason
          THEN AssistantTurn(fc, atc)
          ELSE /\ full_content' = fc
               /\ all_tool_calls' = atc
               /\ chunks' = chunks + 1
               /\ event' = "chunk"
               /\ UNCHANGED orchVars
               /\ UNCHANGED <<messages, iteration, tool_calls_this_turn,
                              is_complete, last_response, config,
                   pc, stream, tool_calls, idx,
                              requests, running, confirmed, cap_marker, outcome>>

StreamEnd ==
    /\ pc = "provider"
    /\ stream
    /\ full_content \in Contents
    /\ AssistantTurn(full_content, all_tool_calls)

ProviderRaise ==
    /\ pc = "provider"
    /\ messages' = MessagesOnProviderFault(messages, full_content)
    /\ pc' = "idle"
    /\ outcome' = "raised"
    /\ event' = IF ~stream THEN "provider_fault"
                 ELSE IF chunks = 0 THEN "stream_fault" ELSE "stream_fault_partial"
    /\ stream' = FALSE
    /\ ClearTurnLocals
    /\ UNCHANGED <<iteration, tool_calls_this_turn, is_complete, last_response,
                   config,
                   tool_calls, idx, requests, running, confirmed, cap_marker>>
    /\ UNCHANGED orchVars

\* one passage of `for tc in tool_calls:` up to the awaited part of tools.execute
ForTool ==
    /\ pc = "for"
    /\ IF idx > Len(tool_calls)
       THEN /\ pc' = "while"
            /\ tool_calls' = <<>>
            /\ idx' = 0
            /\ event' = "tools_done"
            /\ UNCHANGED <<messages, tool_calls_this_turn, running, confirmed,
                           cap_marker>>
       ELSE IF CapReached(tool_calls_this_turn)
       THEN /\ cap_marker' = TRUE
            /\ pc' = "while"
            /\ tool_calls' = <<>>
            /\ idx' = 0
            /\ event' = "cap_reached"
            /\ UNCHANGED <<messages, tool_calls_this_turn, running, confirmed>>
       ELSE /\ tool_calls_this_turn' = Attempted(tool_calls_this_turn,
                                                  RegistryGet(tool_calls[idx].name))
            /\ confirmed' = "unasked"
            /\ LET tc == tool_calls[idx]
                   tool == RegistryGet(tc.name)
               IN IF tool.name = "<None>"
                  THEN /\ messages' = Append(messages,
                                             ToolMessage(tc, UnknownToolResult(tc.name)))
                       /\ idx' = idx + 1
                       /\ pc' = "for"
                       /\ event' = "unknown_tool"
                       /\ UNCHANGED running
                  ELSE /\ LET stage == IF NeedsConfirmation(tool, ConfirmCallbackPassed)
                                       THEN "confirm" ELSE "handler"
                          IN /\ pc' = Awaiting(stage, idx).pc
                             /\ idx' = Awaiting(stage, idx).idx
                             /\ event' = stage
                       /\ running' = Append(running, idx)
                       /\ UNCHANGED messages
            /\ UNCHANGED <<tool_calls, cap_marker>>
    /\ UNCHANGED <<iteration, is_complete, last_response, config,
                   stream, full_content, all_tool_calls,
                   chunks, requests, outcome>>
    /\ UNCHANGED orchVars

\* the confirmation callback answers
ConfirmReturns(answer) ==
    /\ pc = "confirm"
    /\ confirmed' = IF answer THEN "yes" ELSE "no"
    /\ IF ConfirmDeclined(answer)
       THEN /\ messages' = Append(messages, ToolMessage(tool_calls[idx], CancelledResult))
            /\ idx' = idx + 1
            /\ pc' = "for"
            /\ running' = <<>>
            /\ event' = "declined"
       ELSE /\ pc' = Awaiting("handler", idx).pc
            /\ idx' = Awaiting("handler", idx).idx
            /\ event' = "handler"
            /\ UNCHANGED <<messages, running>>
    /\ UNCHANGED <<iteration, tool_calls_this_turn, is_complete, last_response,
                   config, stream,
                   tool_calls, full_content, all_tool_calls, chunks, requests,
                   cap_marker, outcome>>
    /\ UNCHANGED orchVars

\* the confirmation callback raises: nothing in execute or in the agent catches it
ConfirmRaises ==
    /\ pc = "confirm"
    /\ pc' = "idle"
    /\ outcome' = "raised"
    /\ running' = <<>>
    /\ event' = "confirm_fault"
    /\ stream' = FALSE
    /\ UNCHANGED <<messages, iteration, tool_calls_this_turn, is_complete,
                   last_response, config,
                   tool_calls, idx, full_content, all_tool_calls, chunks,
                   requests, confirmed, cap_marker>>
    /\ UNCHANGED orchVars

\* the handler finishes; its result is recorded as the tool message of the call
HandlerReturns(o) ==
    /\ pc = "handler"
    /\ messages' = Append(messages, ToolMessage(tool_calls[idx], HandlerResult(o)))
    /\ idx' = idx + 1
    /\ pc' = "for"
    /\ running' = <<>>
    /\ event' = o
    /\ UNCHANGED <<iteration, tool_calls_this_turn, is_complete, last_response,
                   config, stream,
                   tool_calls, full_content, all_tool_calls, chunks, requests,
                   confirmed, cap_marker, outcome>>
    /\ UNCHANGED orchVars

Reset ==
    /\ pc = "idle"
    /\ messages' = InitConversation
    /\ iteration' = 0
    /\ tool_calls_this_turn' = 0
    /\ is_complete' = FALSE
    /\ last_response' = NoneText
    /\ event' = "reset"
    /\ UNCHANGED <<config, pc, stream,
                   tool_calls, idx, full_content, all_tool_calls, chunks,
                   requests, running, confirmed, cap_marker, outcome>>
    /\ UNCHANGED orchVars

AddContext(content, role) ==
    /\ pc = "idle"
    /\ Len(messages) <= MaxHistory
    /\ messages' = AddContextMessages(messages, Message(role, content, "<None>", <<>>, 0))
    /\ event' = "add_context"
    /\ UNCHANGED <<iteration, tool_calls_this_turn, is_complete, last_response,
                   config, pc, stream,
                   tool_calls, idx, full_content, all_tool_calls, chunks,
                   requests, running, confirmed, cap_marker, outcome>>
    /\ UNCHANGED orchVars

\* ------------------------------------- AsyncOrchestrator.execute_sequential
\* the longest agent_order a run is given
MaxAgents == 3

\* the agent mapping of the orchestrator: templates are the placeholders they use
AgentNames == {"a", "b"}
Agents ==
    [n \in AgentNames |->
        [name |-> n,
         role |-> IF n = "a" THEN "implement" ELSE "review",
         prompt_template |-> IF n = "a" THEN <<"task">>
                                        ELSE <<"task", "previous_output">>]]

\* the names an agent_order can hold: ghost is not in the mapping
OrderNames == AgentNames \cup {"ghost"}
Task == <<"T">>
SeqOutputs == {<<"o1">>, <<"o2">>}

EmptyDict == [k \in {} |-> <<>>]
\* the context argument: None or empty, or a dict of the caller
ContextInputs == {EmptyDict, [k \in {"lang"} |-> <<"py">>]}

DictSet(d, k, v) == [x \in DOMAIN d \cup {k} |-> IF x = k THEN v ELSE d[x]]
DictGet(d, k, default) == IF k \in DOMAIN d THEN d[k] ELSE default

ExecutionResult(agent_name, role, success, content, error, iter) ==
    [agent_name |-> agent_name, role |-> role, success |-> success,
     content |-> content, error |-> error, iteration |-> iter]

WorkflowResult(success, rs, final_output, total_iterations) ==
    [success |-> success, results |-> rs, final_output |-> final_output,
     total_iterations |-> total_iterations]

NoWorkflowResult == WorkflowResult(FALSE, <<>>, <<>>, 0)

RECURSIVE Substitute(_, _)
\* str.format over a template: the values of its placeholders, joined
Substitute(template, kwargs) ==
    IF template = <<>> THEN <<>>
    ELSE kwargs[Head(template)] \o Substitute(Tail(template), kwargs)

\* prompt_template.format(task=..., previous_output=ctx.get("previous_output", ""), **ctx):
\* a keyword given twice is a TypeError, a placeholder without value a KeyError
SequentialPrompt(template, task, c) ==
    IF {"task", "previous_output"} \cap DOMAIN c # {}
    THEN [raised |-> "TypeError", text |-> <<>>]
    ELSE LET kwargs == DictSet(DictSet(c, "task", task), "previous_output",
                               DictGet(c, "previous_output", <<>>))
         IN IF \E j \in 1..Len(template) : template[j] \notin DOMAIN kwargs
            THEN [raised |-> "KeyError", text |-> <<>>]
            ELSE [raised |-> "none", text |-> Substitute(template, kwargs)]

\* an unknown agent name: the result is recorded and the loop goes on
AfterUnknownAgent(i) == [seq_pc |-> "loop", seq_i |-> i + 1]

\* the content of the last successful entry of a result list, "" when none is
LastSuccessfulContent(rs) ==
    LET S == {j \in 1..Len(rs) : rs[j].success}
    IN IF S = {} THEN <<>> ELSE rs[CHOOSE j \in S : \A k \in S : k <= j].content

\* variant: the final output is taken from the last successful entry
SequentialResultLastSuccessful(rs) ==
    WorkflowResult(\A j \in 1..Len(rs) : rs[j].success,
                   rs,
                   LastSuccessfulContent(rs),
                   Len(rs))

\* the WorkflowResult built after the loop
SequentialResult(rs) ==
    WorkflowResult(\A j \in 1..Len(rs) : rs[j].success,
                   rs,
                   IF rs # <<>> /\ rs[Len(rs)].success THEN rs[Len(rs)].content ELSE <<>>,
                   Len(rs))

\* no sequential run is in progress
SeqIdle ==
    /\ agent_order = <<>>
    /\ behaviour = <<>>
    /\ ctx = EmptyDict
    /\ current_input = <<>>
    /\ results = <<>>
    /\ seq_i = 0
    /\ seq_pc = "idle"
    /\ seq_result = NoWorkflowResult
    /\ invoked = <<>>

\* execute_sequential(task, agent_order, context) is entered; behaviour[j] says
\* what the provider of the j-th named agent does when it is called
InitSequential ==
    /\ agent_order \in UNION {[1..n -> OrderNames] : n \in 0..MaxAgents}
    /\ behaviour \in [1..Len(agent_order) -> {"ok", "raise"}]
    /\ ctx \in ContextInputs
    /\ current_input = Task
    /\ results = <<>>
    /\ seq_i = 1
    /\ seq_pc = "loop"
    /\ seq_result = NoWorkflowResult
    /\ invoked = <<>>

\* one passage of the loop over agent_order up to the provider call
SeqLoop ==
    /\ seq_pc = "loop"
    /\ IF seq_i > Len(agent_order)
       THEN /\ seq_pc' = "done"
            /\ seq_result' = SequentialResult(results)
            /\ UNCHANGED <<results, seq_i, invoked>>
       ELSE LET agent_name == agent_order[seq_i]
            IN IF agent_name \notin DOMAIN Agents
               THEN /\ results' = Append(results,
                          ExecutionResult(agent_name, "unknown", FALSE, <<>>,
                                          <<"Agent not found: ", agent_name>>, 0))
                    /\ seq_pc' = AfterUnknownAgent(seq_i).seq_pc
                    /\ seq_i' = AfterUnknownAgent(seq_i).seq_i
                    /\ UNCHANGED <<seq_result, invoked>>
               ELSE LET prompt == SequentialPrompt(Agents[agent_name].prompt_template,
                                                   current_input, ctx)
                    IN IF prompt.raised # "none"
                       THEN /\ seq_pc' = prompt.raised
                            /\ UNCHANGED <<results, seq_i, seq_result, invoked>>
                       ELSE /\ seq_pc' = "provider"
                            /\ invoked' = Append(invoked,
                                   [agent |-> agent_name, prompt |-> prompt.text])
                            /\ UNCHANGED <<results, seq_i, seq_result>>
    /\ UNCHANGED <<agent_order, behaviour, ctx, current_input>>
    /\ UNCHANGED seqFrame

\* the provider of the current agent returns a completion
SeqProviderReturns(content) ==
    /\ seq_pc = "provider"
    /\ behaviour[seq_i] = "ok"
    /\ results' = Append(results,
          ExecutionResult(agent_order[seq_i], Agents[agent_order[seq_i]].role,
                          TRUE, content, NoneText, seq_i - 1))
    /\ current_input' = content
    /\ ctx' = DictSet(ctx, "previous_output", content)
    /\ seq_i' = seq_i + 1
    /\ seq_pc' = "loop"
    /\ UNCHANGED <<agent_order, behaviour, seq_result, invoked>>
    /\ UNCHANGED seqFrame

\* the provider of the current agent raises: the failure is recorded and the
\* loop is left
SeqProviderRaises ==
    /\ seq_pc = "provider"
    /\ behaviour[seq_i] = "raise"
    /\ LET rs == Append(results,
                    ExecutionResult(agent_order[seq_i], Agents[agent_order[seq_i]].role,
                                    FALSE, <<>>, <<"boom">>, 0))
       IN /\ results' = rs
          /\ seq_result' = SequentialResult(rs)
    /\ seq_pc' = "done"
    /\ UNCHANGED <<agent_order, behaviour, ctx, current_input, seq_i, invoked>>
    /\ UNCHANGED seqFrame

\* --------------------------------------- AsyncOrchestrator.execute_parallel
\* the longest agent_names list a parallel run is given
MaxParallel == 3

MergeStrategies == {"combine", "best", "vote"}
ParOutputs == {<<"p1">>, <<"p1", "p2">>}

\* the value of a run_agent task that has not returned yet
NoExecutionResult == ExecutionResult("<None>", "<None>", FALSE, <<>>, NoneText, 0)

\* the agent mapping of a parallel workflow: the templates use the placeholder
\* task, the one keyword format() is given in this mode
ParallelAgents ==
    [n \in AgentNames |->
        [name |-> n,
         role |-> IF n = "a" THEN "implement" ELSE "review",
         prompt_template |-> IF n = "a" THEN <<"task">> ELSE <<"task", "task">>]]

\* prompt_template.format(task=task)
ParallelPrompt(template, task) == Substitute(template, [k \in {"task"} |-> task])

\* the positions whose run_agent has returned
ParDone == {j \in 1..Len(par_results) : par_results[j] # NoExecutionResult}

\* variant: the gather is over as soon as one task has returned
GatherCompleteOnFirst == ParDone # {}

\* `await asyncio.gather(*tasks)` resumes when every task has returned
GatherComplete ==
    /\ par_next > Len(agent_names)
    /\ ParDone = 1..Len(agent_names)

\* variant: the values are listed in the order in which the tasks completed
GatheredInCompletionOrder(rs, completed) ==
    [j \in 1..Len(completed) |-> rs[completed[j]]]

\* the list asyncio.gather returns: the value of each task, in the order of
\* the awaitables it was given
Gathered(rs, completed) == rs

\* `[r for r in results if r.success]`
Successful(rs) == SelectSeq(rs, LAMBDA r : r.success)

\* the labeled block of one result: f"**{r.agent_name} ({r.role}):**\n{r.content}"
Block(r) == <<"**", r.agent_name, " (", r.role, "):**\n">> \o r.content

RECURSIVE JoinBlocks(_)
\* "\n\n---\n\n".join(blocks of rs)
JoinBlocks(rs) ==
    IF rs = <<>> THEN <<>>
    ELSE IF Len(rs) = 1 THEN Block(rs[1])
    ELSE Block(rs[1]) \o <<"\n\n---\n\n">> \o JoinBlocks(Tail(rs))

\* max(successful, key=lambda r: len(r.content)): the first of the longest
Longest(rs) ==
    rs[CHOOSE j \in 1..Len(rs) :
          /\ \A k \in 1..Len(rs) : Len(rs[k].content) <= Len(rs[j].content)
          /\ \A k \in 1..(j - 1) : Len(rs[k].content) < Len(rs[j].content)]

\* variant: every result is merged, failed ones included
MergedWithFailed(strategy, successful, rs) ==
    CASE strategy = "combine" -> JoinBlocks(rs)
      [] strategy = "best" -> IF rs # <<>> THEN Longest(rs).content ELSE <<>>
      [] OTHER -> IF rs # <<>> THEN rs[1].content ELSE <<>>

\* the merge of the successful results by merge_strategy
Merged(strategy, successful, rs) ==
    CASE strategy = "combine" -> JoinBlocks(successful)
      [] strategy = "best" ->
            IF successful # <<>> THEN Longest(successful).content ELSE <<>>
      [] OTHER -> IF successful # <<>> THEN successful[1].content ELSE <<>>

\* the WorkflowResult of a parallel run
ParallelResult(strategy, rs) ==
    WorkflowResult(Len(Successful(rs)) > 0, rs,
                   Merged(strategy, Successful(rs), rs), 1)

\* no parallel run is in progress
ParIdle ==
    /\ agent_names = <<>>
    /\ par_behaviour = <<>>
    /\ merge_strategy = "combine"
    /\ par_next = 0
    /\ par_results = <<>>
    /\ par_completed = <<>>
    /\ par_invoked = <<>>
    /\ par_pc = "idle"
    /\ par_result = NoWorkflowResult

\* execute_parallel(task, agent_names, merge_strategy) has created one run_agent
\* task per name and awaits the gather; par_behaviour[j] says what the provider
\* does for the j-th task ("none" for a name without provider)
InitParallel ==
    /\ agent_names \in UNION {[1..n -> OrderNames] : n \in 0..MaxParallel}
    /\ par_behaviour \in [1..Len(agent_names) -> {"ok", "raise", "none"}]
    /\ \A j \in 1..Len(agent_names) :
          par_behaviour[j] = "none" <=> agent_names[j] \notin DOMAIN ParallelAgents
    /\ merge_strategy \in MergeStrategies
    /\ par_next = 1
    /\ par_results = [j \in 1..Len(agent_names) |-> NoExecutionResult]
    /\ par_completed = <<>>
    /\ par_invoked = <<>>
    /\ par_pc = "gather"
    /\ par_result = NoWorkflowResult

\* the next run_agent task takes its first step: an unknown name returns at
\* once, a known agent's prompt is built and its provider is called
RunAgent ==
    /\ par_pc = "gather"
    /\ par_next <= Len(agent_names)
    /\ LET name == agent_names[par_next]
       IN IF name \notin DOMAIN ParallelAgents
          THEN /\ par_results' = [par_results EXCEPT ![par_next] =
                      ExecutionResult(name, "unknown", FALSE, <<>>,
                                      <<"Agent not found: ", name>>, 0)]
               /\ par_completed' = Append(par_completed, par_next)
               /\ UNCHANGED par_invoked
          ELSE /\ par_invoked' = Append(par_invoked,
                      [pos |-> par_next, agent |-> name,
                       prompt |-> ParallelPrompt(ParallelAgents[name].prompt_template, Task)])
               /\ UNCHANGED <<par_results, par_completed>>
    /\ par_next' = par_next + 1
    /\ UNCHANGED <<agent_names, par_behaviour, merge_strategy, par_pc, par_result>>
    /\ UNCHANGED parFrame

\* the positions whose provider call is in flight
ParInFlight ==
    {j \in 1..Len(agent_names) :
        j < par_next /\ j \notin ParDone /\ agent_names[j] \in DOMAIN ParallelAgents}

\* the provider called by the task at position j returns a completion
ParProviderReturns(j, content) ==
    /\ par_pc = "gather"
    /\ j \in ParInFlight
    /\ par_behaviour[j] = "ok"
    /\ par_results' = [par_results EXCEPT ![j] =
           ExecutionResult(agent_names[j], ParallelAgents[agent_names[j]].role,
                           TRUE, content, NoneText, 0)]
    /\ par_completed' = Append(par_completed, j)
    /\ UNCHANGED <<agent_names, par_behaviour, merge_strategy, par_next,
                   par_invoked, par_pc, par_result>>
    /\ UNCHANGED parFrame

\* the provider called by the task at position j raises: run_agent returns a
\* failed result
ParProviderRaises(j) ==
    /\ par_pc = "gather"
    /\ j \in ParInFlight
    /\ par_behaviour[j] = "raise"
    /\ par_results' = [par_results EXCEPT ![j] =
           ExecutionResult(agent_names[j], ParallelAgents[agent_names[j]].role,
                           FALSE, <<>>, <<"boom">>, 0)]
    /\ par_completed' = Append(par_completed, j)
    /\ UNCHANGED <<agent_names, par_behaviour, merge_strategy, par_next,
                   par_invoked, par_pc, par_result>>
    /\ UNCHANGED parFrame

\* the gather resumes execute_parallel, which merges and returns
ParMerge ==
    /\ par_pc = "gather"
    /\ GatherComplete
    /\ par_result' = ParallelResult(merge_strategy,
                                    Gathered(par_results, par_completed))
    /\ par_pc' = "done"
    /\ UNCHANGED <<agent_names, par_behaviour, merge_strategy, par_next,
                   par_results, par_completed, par_invoked>>
    /\ UNCHANGED parFrame

\* ------------------------------------------------- StopCondition.check
\* a Stop Condition: its type, its value when it is a number (has_value says
\* whether one is configured) and its keyword when it is a text
StopCondition(type, has_value, value, keyword) ==
    [type |-> type, has_value |-> has_value, value |-> value, keyword |-> keyword]

\* the search strings that occur in the lower-cased fragment of a text
Occurring(fragment) ==
    CASE fragment = "LGTM"     -> {"lgtm"}
      [] fragment = "Approved" -> {"approved"}
      [] fragment = "should"   -> {"should"}
      [] fragment = "could"    -> {"could"}
      [] OTHER                 -> {}

\* `needle in content.lower()`
InLower(needle, content) ==
    \E k \in 1..Len(content) : needle \in Occurring(content[k])

\* value.lower() of a configured keyword
KeywordLower(keyword) == IF keyword = "LGTM" THEN "lgtm" ELSE keyword

Indicators == {"should", "could", "recommend", "suggest", "consider"}

\* `self.value or default`: None and 0 give the default
ValueOr(cond, default) ==
    IF cond.has_value /\ cond.value # 0 THEN cond.value ELSE default

\* StopCondition.check(result)
Check(cond, result) ==
    CASE cond.type = "keyword" -> InLower(KeywordLower(cond.keyword), result.content)
      [] cond.type = "no_suggestions" ->
            Cardinality({ind \in Indicators : InLower(ind, result.content)})
               < ValueOr(cond, 2)
      [] cond.type = "approval" ->
            InLower("approved", result.content) \/ InLower("lgtm", result.content)
      [] cond.type = "max_iterations" -> result.iteration >= ValueOr(cond, 10)
      [] OTHER -> FALSE

\* variant: the stop condition asks for every configured condition to match
CheckStopAll(conds, result) ==
    conds # <<>> /\ \A k \in 1..Len(conds) : Check(conds[k], result)

\* variant: only the first condition of the list is looked at
CheckStopFirstOnly(conds, result) == conds # <<>> /\ Check(conds[1], result)

\* check_stop of execute_workflow: any(cond.check(result) for cond in stop_conditions)
CheckStop(conds, result) == \E k \in 1..Len(conds) : Check(conds[k], result)

\* ----------------------------------- AsyncOrchestrator.execute_round_robin
\* the longest agent_order a round-robin run is given
MaxRoundRobin == 2

\* the values of max_rounds
RoundLimits == {0, 1, 2}

\* the stop_conditions of the workflow; with an empty list no stop_condition
\* is passed to execute_round_robin
StopConfigs ==
    { <<>>,
      << StopCondition("keyword", FALSE, 0, "LGTM") >>,
      << StopCondition("max_iterations", TRUE, 3, ""),
         StopCondition("approval", FALSE, 0, "") >> }

RROutputs == {<<"fine">>, <<"LGTM">>}

\* the agent mapping of a round-robin workflow: the templates use the
\* placeholders format() is given in this mode
RoundRobinAgents ==
    [n \in AgentNames |->
        [name |-> n,
         role |-> IF n = "a" THEN "implement" ELSE "review",
         prompt_template |-> IF n = "a" THEN <<"task">>
                             ELSE <<"task", "current_state", "history", "round">>]]

\* the characters of an output shown in the digest
DigestChars == 200

\* h['output'][:200]
Truncated(text) ==
    SubSeq(text, 1, IF Len(text) < DigestChars THEN Len(text) ELSE DigestChars)

\* history[-3:]
LastThree(h) == SubSeq(h, IF Len(h) > 3 THEN Len(h) - 2 ELSE 1, Len(h))

RECURSIVE HistoryText(_)
\* "\n".join(f"[{h['agent']}]: {h['output'][:200]}..." for h in hs)
HistoryText(hs) ==
    IF hs = <<>> THEN <<>>
    ELSE <<"[", Head(hs).agent, "]: ">> \o Truncated(Head(hs).output) \o <<"...">>
         \o (IF Len(hs) > 1 THEN <<"\n">> ELSE <<>>) \o HistoryText(Tail(hs))

\* prompt_template.format(task=, current_state=, history=, round=)
RoundRobinPrompt(template, task, current_state, h, round) ==
    Substitute(template,
               [k \in {"task", "current_state", "history", "round"} |->
                   CASE k = "task" -> task
                     [] k = "current_state" -> current_state
                     [] k = "history" -> HistoryText(LastThree(h))
                     [] OTHER -> <<ToString(round)>>])

\* the position that follows (round, i) in the two nested loops
NextPosition(round, i) ==
    IF i < Len(rr_order) THEN [round_num |-> round, rr_i |-> i + 1]
    ELSE [round_num |-> round + 1, rr_i |-> 1]

\* variant: one more round is made
RoundsLeftOneMore(round) == round <= max_rounds

\* `for round_num in range(max_rounds)` has a round left
RoundsLeft(round) == round < max_rounds

\* variant: the run is ended by a failed invocation
AfterFaultEndsRun(round, i) == [round_num |-> max_rounds + 1, rr_i |-> 1]

\* the except branch records the failure and falls through to the next agent
AfterFault(round, i) == NextPosition(round, i)

\* the WorkflowResult after the last round
RoundRobinResult(rs, current) ==
    WorkflowResult(\E j \in 1..Len(rs) : rs[j].success, rs, current, Len(rs))

\* no round-robin run is in progress
RRIdle ==
    /\ rr_order = <<>>
    /\ max_rounds = 0
    /\ stop_conditions = <<>>
    /\ round_num = 0
    /\ rr_i = 0
    /\ rr_pc = "idle"
    /\ rr_results = <<>>
    /\ rr_current_input = <<>>
    /\ history = <<>>
    /\ rr_result = NoWorkflowResult
    /\ rr_invoked = <<>>
    /\ rr_checks = 0

\* execute_round_robin(task, agent_order, max_rounds, stop_condition) is entered
InitRoundRobin ==
    /\ rr_order \in UNION {[1..n -> OrderNames] : n \in 0..MaxRoundRobin}
    /\ max_rounds \in RoundLimits
    /\ stop_conditions \in StopConfigs
    /\ round_num = 0
    /\ rr_i = 1
    /\ rr_pc = "loop"
    /\ rr_results = <<>>
    /\ rr_current_input = Task
    /\ history = <<>>
    /\ rr_result = NoWorkflowResult
    /\ rr_invoked = <<>>
    /\ rr_checks = 0

\* one passage of the nested loops up to the provider call: the rounds are
\* over, or the name is skipped, or the prompt is built and the provider called
RRLoop ==
    /\ rr_pc = "loop"
    /\ IF ~RoundsLeft(round_num) \/ rr_order = <<>>
       THEN /\ rr_pc' = "done"
            /\ rr_result' = RoundRobinResult(rr_results, rr_current_input)
            /\ UNCHANGED <<round_num, rr_i, rr_invoked>>
       ELSE IF rr_order[rr_i] \notin DOMAIN RoundRobinAgents
            THEN /\ round_num' = NextPosition(round_num, rr_i).round_num
                 /\ rr_i' = NextPosition(round_num, rr_i).rr_i
                 /\ UNCHANGED <<rr_pc, rr_result, rr_invoked>>
            ELSE /\ rr_pc' = "provider"
                 /\ rr_invoked' = Append(rr_invoked,
                        [agent |-> rr_order[rr_i], round |-> round_num + 1,
                         prompt |-> RoundRobinPrompt(
                                        RoundRobinAgents[rr_order[rr_i]].prompt_template,
                                        Task, rr_current_input, history,
                                        round_num + 1)])
                 /\ UNCHANGED <<round_num, rr_i, rr_result>>
    /\ UNCHANGED <<rr_order, max_rounds, stop_conditions, rr_results,
                   rr_current_input, history, rr_checks>>
    /\ UNCHANGED rrFrame

\* the provider returns a completion: the result is recorded, the running
\* state and the history are updated and the stop condition is checked
RRProviderReturns(content) ==
    /\ rr_pc = "provider"
    /\ LET agent == RoundRobinAgents[rr_order[rr_i]]
           result == ExecutionResult(agent.name, agent.role, TRUE, content,
                                     NoneText, Len(rr_results))
           rs == Append(rr_results, result)
       IN /\ rr_results' = rs
          /\ rr_current_input' = content
          /\ history' = Append(history, [agent |-> agent.name, role |-> agent.role,
                                          output |-> content])
          /\ rr_checks' = IF stop_conditions # <<>> THEN rr_checks + 1 ELSE rr_checks
          /\ IF stop_conditions # <<>> /\ CheckStop(stop_conditions, result)
             THEN /\ rr_pc' = "done"
                  /\ rr_result' = WorkflowResult(TRUE, rs, content, Len(rs))
                  /\ UNCHANGED <<round_num, rr_i>>
             ELSE /\ rr_pc' = "loop"
                  /\ round_num' = NextPosition(round_num, rr_i).round_num
                  /\ rr_i' = NextPosition(round_num, rr_i).rr_i
                  /\ UNCHANGED rr_result
    /\ UNCHANGED <<rr_order, max_rounds, stop_conditions, rr_invoked>>
    /\ UNCHANGED rrFrame

\* the provider raises: the failure is recorded and the loops go on
RRProviderRaises ==
    /\ rr_pc = "provider"
    /\ LET agent == RoundRobinAgents[rr_order[rr_i]]
       IN rr_results' = Append(rr_results,
              ExecutionResult(agent.name, agent.role, FALSE, <<>>, <<"boom">>, 0))
    /\ rr_pc' = "loop"
    /\ round_num' = AfterFault(round_num, rr_i).round_num
    /\ rr_i' = AfterFault(round_num, rr_i).rr_i
    /\ UNCHANGED <<rr_order, max_rounds, stop_conditions, rr_current_input,
                   history, rr_result, rr_invoked, rr_checks>>
    /\ UNCHANGED rrFrame

\* ------------------------------------ AsyncOrchestrator.execute_continuous
\* the largest max_iterations an orchestrator is constructed with
MaxContinuous == 3

ContOutputs == {<<"fine">>, <<"LGTM">>}

\* AgentRole with its next_agent ("<None>" when it has none)
AgentRole(name, role, prompt_template, next_agent) ==
    [name |-> name, role |-> role, prompt_template |-> prompt_template,
     next_agent |-> next_agent]

\* the agents dict of the orchestrator, in insertion order: a two-node cycle,
\* a chain whose implementer is not the first key, and a single agent without
\* the role implement whose next_agent is not in the dict
ContinuousMappings ==
    { << AgentRole("a", "implement", <<"task">>, "b"),
         AgentRole("b", "review", <<"task", "iteration">>, "a") >>,
      << AgentRole("b", "review", <<"task", "iteration">>, "<None>"),
         AgentRole("a", "implement", <<"task">>, "b") >>,
      << AgentRole("b", "review", <<"task">>, "ghost") >> }

\* `name in self.agents`
InAgents(m, name) == \E k \in 1..Len(m) : m[k].name = name

\* self.agents[name]
AgentOf(m, name) == m[CHOOSE k \in 1..Len(m) : m[k].name = name]

\* the first agent with role "implement", or else the first key
FirstAgent(m) ==
    LET I == {k \in 1..Len(m) : m[k].role = "implement"}
    IN IF I # {} THEN m[CHOOSE k \in I : \A l \in I : k <= l].name
       ELSE m[1].name

QueueItem(task, target_agent, iter) ==
    [task |-> task, target_agent |-> target_agent, iteration |-> iter]

NoItem == QueueItem(<<>>, "<None>", 0)

\* prompt_template.format(task=item["task"], iteration=item["iteration"])
ContinuousPrompt(template, it) ==
    Substitute(template,
               [k \in {"task", "iteration"} |->
                   IF k = "task" THEN it.task ELSE <<ToString(it.iteration)>>])

\* variant: the item handed over stays in the queue
DequeuedPeek(q) == q

\* `await self.task_queue.get()` takes the oldest item out of the queue
Dequeued(q) == Tail(q)

\* variant: the item whose invocation failed is queued again
QueueAfterFaultRetry(q, it) == Append(q, it)

\* the except branch records the failure and puts nothing
QueueAfterFault(q, it) == q

\* variant: the item at the bound is followed by one more
MayEnqueueAtBound(agent, it) ==
    agent.next_agent # "<None>" /\ it.iteration <= cont_max_iterations

\* `if agent.next_agent and item["iteration"] < self.max_iterations`
MayEnqueue(agent, it) ==
    agent.next_agent # "<None>" /\ it.iteration < cont_max_iterations

\* variant: the final output is the content of the last successful result
ContinuousResultLastSuccessful(rs) ==
    WorkflowResult(\E j \in 1..Len(rs) : rs[j].success,
                   rs,
                   LastSuccessfulContent(rs),
                   Len(rs))

\* the WorkflowResult built when the consumer loop is over
ContinuousResult(rs) ==
    WorkflowResult(\E j \in 1..Len(rs) : rs[j].success,
                   rs,
                   IF rs # <<>> /\ rs[Len(rs)].success THEN rs[Len(rs)].content ELSE <<>>,
                   Len(rs))

\* no continuous run is in progress: a fresh orchestrator, its queue empty
ContIdle ==
    /\ cont_agents = <<>>
    /\ cont_max_iterations = 0
    /\ cont_stop = <<>>
    /\ task_queue = <<>>
    /\ cont_pc = "idle"
    /\ item = NoItem
    /\ cont_results = <<>>
    /\ cont_result = NoWorkflowResult
    /\ cont_invoked = <<>>
    /\ cont_put = <<>>
    /\ cont_end = "none"

\* execute_continuous(initial_task, stop_condition) on a fresh orchestrator has
\* queued the first item and started the consumer loop
InitContinuous ==
    /\ cont_agents \in ContinuousMappings
    /\ cont_max_iterations \in 0..MaxContinuous
    /\ cont_stop \in StopConfigs
    /\ task_queue = << QueueItem(Task, FirstAgent(cont_agents), 0) >>
    /\ cont_pc = "get"
    /\ item = NoItem
    /\ cont_results = <<>>
    /\ cont_result = NoWorkflowResult
    /\ cont_invoked = <<>>
    /\ cont_put = << QueueItem(Task, FirstAgent(cont_agents), 0) >>
    /\ cont_end = "none"

\* task_queue.get() returns the oldest item: an unknown target is dropped,
\* otherwise the prompt is built and the provider is called
ContGet ==
    /\ cont_pc = "get"
    /\ task_queue # <<>>
    /\ task_queue' = Dequeued(task_queue)
    /\ item' = Head(task_queue)
    /\ IF ~InAgents(cont_agents, Head(task_queue).target_agent)
       THEN UNCHANGED <<cont_pc, cont_invoked>>
       ELSE /\ cont_pc' = "provider"
            /\ cont_invoked' = Append(cont_invoked,
                   [agent |-> Head(task_queue).target_agent,
                    iteration |-> Head(task_queue).iteration,
                    prompt |-> ContinuousPrompt(
                        AgentOf(cont_agents, Head(task_queue).target_agent).prompt_template,
                        Head(task_queue))])
    /\ UNCHANGED <<cont_agents, cont_max_iterations, cont_stop, cont_results,
                   cont_result, cont_put, cont_end>>
    /\ UNCHANGED contFrame

\* the provider returns a completion: the result is recorded and checked
\* against the stop condition; without a match the follow-on item is queued
\* when the agent has a next_agent and the iteration bound allows it
ContProviderReturns(content) ==
    /\ cont_pc = "provider"
    /\ LET agent == AgentOf(cont_agents, item.target_agent)
           result == ExecutionResult(agent.name, agent.role, TRUE, content,
                                     NoneText, item.iteration)
           rs == Append(cont_results, result)
           follow == QueueItem(content, agent.next_agent, item.iteration + 1)
       IN /\ cont_results' = rs
          /\ IF CheckStop(cont_stop, result)
             THEN /\ cont_pc' = "done"
                  /\ cont_end' = "stop"
                  /\ cont_result' = ContinuousResult(rs)
                  /\ UNCHANGED <<task_queue, cont_put>>
             ELSE /\ cont_pc' = "get"
                  /\ IF MayEnqueue(agent, item)
                     THEN /\ task_queue' = Append(task_queue, follow)
                          /\ cont_put' = Append(cont_put, follow)
                     ELSE UNCHANGED <<task_queue, cont_put>>
                  /\ UNCHANGED <<cont_end, cont_result>>
    /\ UNCHANGED <<cont_agents, cont_max_iterations, cont_stop, item, cont_invoked>>
    /\ UNCHANGED contFrame

\* the provider raises: the failure is recorded, nothing is queued
ContProviderRaises ==
    /\ cont_pc = "provider"
    /\ LET agent == AgentOf(cont_agents, item.target_agent)
       IN cont_results' = Append(cont_results,
              ExecutionResult(agent.name, agent.role, FALSE, <<>>, <<"boom">>, 0))
    /\ cont_pc' = "get"
    /\ task_queue' = QueueAfterFault(task_queue, item)
    /\ UNCHANGED <<cont_agents, cont_max_iterations, cont_stop, item,
                   cont_result, cont_invoked, cont_put, cont_end>>
    /\ UNCHANGED contFrame

\* variant: the poll expires while an invocation of the consumer is in flight
PollExpiresWhileBusy ==
    cont_pc \in {"get", "provider"} /\ task_queue = <<>>

\* wait_for(self.task_queue.get(), timeout=5.0) raised TimeoutError and
\* self.task_queue.empty() holds: only the consumer itself waits there
PollFindsQueueEmpty ==
    cont_pc = "get" /\ task_queue = <<>>

\* variant: a provider call in flight is not cancelled by the overall timeout
CancellableAtQueueOnly ==
    cont_pc = "get"

\* the awaits of process_queue at which wait_for(process_queue(), timeout)
\* cancels it: the queue get and the provider call
Cancellable ==
    cont_pc \in {"get", "provider"}

\* the 5-second poll of an empty queue expires and the queue is still empty:
\* the consumer loop is left
ContDrain ==
    /\ PollFindsQueueEmpty
    /\ cont_pc' = "done"
    /\ cont_end' = "drain"
    /\ cont_result' = ContinuousResult(cont_results)
    /\ UNCHANGED <<cont_agents, cont_max_iterations, cont_stop, task_queue, item,
                   cont_results, cont_invoked, cont_put>>
    /\ UNCHANGED contFrame

\* the overall timeout expires while the consumer waits for the queue or for
\* a provider: the loop is cancelled and the results so far are returned
ContTimeout ==
    /\ Cancellable
    /\ cont_pc' = "done"
    /\ cont_end' = "timeout"
    /\ cont_result' = ContinuousResult(cont_results)
    /\ UNCHANGED <<cont_agents, cont_max_iterations, cont_stop, task_queue, item,
                   cont_results, cont_invoked, cont_put>>
    /\ UNCHANGED contFrame

\* ---------------------------------------- SessionManager (agent/session.py)
\* Values of the session store.  A str is a sequence of pieces, each the first
\* n characters of a named text, so that len() and slicing are computed; a
\* Python value carries its type, so that json.dump and json.load map types.
Piece(t, n) == [t |-> t, n |-> n]

PyNone == <<"none">>
PyStr(s) == <<"str", s>>
PyInt(k) == <<"int", k>>
PyList(items) == <<"list", items>>
PyTuple(items) == <<"tuple", items>>
\* a dict: its members <<key, value>> in insertion order
PyDict(members) == <<"dict", members>>

\* the str of n characters named t
Str(t, n) == PyStr(<< Piece(t, n) >>)

\* len(s) of a str
RECURSIVE StrLen(_)
StrLen(s) == IF s = <<>> THEN 0 ELSE s[1].n + StrLen(Tail(s))

\* s[:k] of a str
RECURSIVE Slice(_, _)
Slice(s, k) ==
    IF s = <<>> \/ k <= 0 THEN <<>>
    ELSE IF s[1].n <= k THEN << s[1] >> \o Slice(Tail(s), k - s[1].n)
    ELSE << Piece(s[1].t, k) >>

\* the number of characters of str(k), k >= 0
RECURSIVE Digits(_)
Digits(k) == IF k < 10 THEN 1 ELSE 1 + Digits(k \div 10)

\* str(k) of an int
IntStr(k) == << Piece(ToString(k), Digits(k)) >>

\* d.get(key, default) of a dict
PyGet(d, key, default) ==
    LET I == { i \in 1..Len(d[2]) : d[2][i][1] = key }
    IN IF I = {} THEN default ELSE d[2][CHOOSE i \in I : TRUE][2]

\* d[key] = value: an existing key keeps its place
PyPut(d, key, value) ==
    IF \E i \in 1..Len(d[2]) : d[2][i][1] = key
    THEN PyDict([i \in 1..Len(d[2]) |->
                    IF d[2][i][1] = key THEN <<key, value>> ELSE d[2][i]])
    ELSE PyDict(Append(d[2], <<key, value>>))

\* bool(v) of a value that is None, a str or a list
Truthy(v) == v # PyNone /\ v[2] # <<>>

RECURSIVE SumLens(_, _)
\* len(str(v)) of a value made of None, str without quotes or escapes, int,
\* list and dict: 'text', [a, b], {k: v, k: v}
RECURSIVE ReprLen(_)
ReprLen(v) ==
    CASE v[1] = "none" -> 4
      [] v[1] = "str" -> StrLen(v[2]) + 2
      [] v[1] = "int" -> Digits(v[2])
      [] v[1] \in {"list", "tuple"} ->
            2 + SumLens([i \in 1..Len(v[2]) |-> ReprLen(v[2][i])], 2)
      [] v[1] = "dict" ->
            2 + SumLens([i \in 1..Len(v[2]) |->
                            ReprLen(v[2][i][1]) + 2 + ReprLen(v[2][i][2])], 2)

\* the numbers of ns added up, with sep more between two of them
SumLens(ns, sep) ==
    IF ns = <<>> THEN 0
    ELSE ns[1] + (IF Len(ns) > 1 THEN sep ELSE 0) + SumLens(Tail(ns), sep)

\* the roles of a Message
SYSTEM == Str("system", 6)
USER == Str("user", 4)
ASSISTANT == Str("assistant", 9)
TOOL == Str("tool", 4)

\* Message(role=.., content=..): name, tool_calls and tool_call_id default to None
PlainMessage(role, content) == Message(role, content, PyNone, PyNone, PyNone)

\* SessionManager.estimate_tokens
RECURSIVE EstimateTokens(_)
EstimateTokens(msgs) ==
    IF msgs = <<>> THEN 0
    ELSE (StrLen(msgs[1].content[2]) \div 4)
         + (IF Truthy(msgs[1].tool_calls)
            THEN ReprLen(msgs[1].tool_calls) \div 4 ELSE 0)
         + EstimateTokens(Tail(msgs))

\* SessionManager.should_compact with compact_threshold = 0.8:
\* tokens >= max_tokens * 0.8
ShouldCompact(msgs) == 5 * EstimateTokens(msgs) >= 4 * max_tokens

\* variant: a system message is treated like any other message
KeptAsSystemNever(msg, keep_system) == FALSE

\* `if msg.role == "system" and keep_system`
KeptAsSystem(msg, keep_system) == msg.role = SYSTEM /\ keep_system

\* `elif len(messages) - len(removed_messages) - 1 < keep_last_n`
KeepsRecent(total, removed, keep_last_n) == total - removed - 1 < keep_last_n

\* the loop over messages: <<new_messages, removed_messages>>
RECURSIVE Partition(_, _, _, _, _, _)
Partition(msgs, i, keep_system, keep_last_n, new_messages, removed) ==
    IF i > Len(msgs) THEN <<new_messages, removed>>
    ELSE IF KeptAsSystem(msgs[i], keep_system)
            \/ KeepsRecent(Len(msgs), Len(removed), keep_last_n)
         THEN Partition(msgs, i + 1, keep_system, keep_last_n,
                        Append(new_messages, msgs[i]), removed)
         ELSE Partition(msgs, i + 1, keep_system, keep_last_n,
                        new_messages, Append(removed, msgs[i]))

\* summary_parts: one line for each removed user or assistant message, with
\* the first 100 characters of its content
RECURSIVE SummaryParts(_)
SummaryParts(removed) ==
    IF removed = <<>> THEN <<>>
    ELSE (IF removed[1].role = USER
          THEN << << Piece("User asked: ", 12) >>
                    \o Slice(removed[1].content[2], 100)
                    \o << Piece("...", 3) >> >>
          ELSE IF removed[1].role = ASSISTANT
          THEN << << Piece("Assistant: ", 11) >>
                    \o Slice(removed[1].content[2], 100)
                    \o << Piece("...", 3) >> >>
          ELSE <<>>)
         \o SummaryParts(Tail(removed))

\* "\n".join(parts)
RECURSIVE JoinLines(_)
JoinLines(parts) ==
    IF parts = <<>> THEN <<>>
    ELSE IF Len(parts) = 1 THEN parts[1]
    ELSE parts[1] \o << Piece("\n", 1) >> \o JoinLines(Tail(parts))

\* the summary Message of the removed messages: the header with their number
\* and the first five summary parts
SummaryMessage(removed) ==
    PlainMessage(SYSTEM,
        PyStr(<< Piece("[Previous conversation summary (", 32) >>
              \o IntStr(Len(removed))
              \o << Piece(" messages)]\n", 12) >>
              \o JoinLines(SubSeq(SummaryParts(removed), 1,
                                  IF Len(SummaryParts(removed)) < 5
                                  THEN Len(SummaryParts(removed)) ELSE 5))))

\* variant: a summary is added also when nothing was removed
AddsSummaryAlways(summarize, removed) == summarize

\* `if summarize and removed_messages`
AddsSummary(summarize, removed) == summarize /\ removed # <<>>

\* variant: the summary always goes to the front
InsertIdxFront(new_messages) == 0

\* `insert_idx = 1 if new_messages and new_messages[0].role == "system" else 0`
InsertIdx(new_messages) ==
    IF new_messages # <<>> /\ new_messages[1].role = SYSTEM THEN 1 ELSE 0

\* list.insert(at, x), at counted from 0
Insert(list, at, x) ==
    SubSeq(list, 1, at) \o << x >> \o SubSeq(list, at + 1, Len(list))

\* the keys of Session.context that compact_session writes
COMPACTED_AT == Str("compacted_at", 12)
REMOVED_MESSAGES == Str("removed_messages", 16)

\* compact_session(session, keep_system, keep_last_n, summarize) at time now:
\* the session afterwards
Compacted(s, keep_system, keep_last_n, summarize, now) ==
    IF Len(s.messages) <= keep_last_n THEN s
    ELSE LET p == Partition(s.messages, 1, keep_system, keep_last_n, <<>>, <<>>)
             new_messages ==
                 IF AddsSummary(summarize, p[2])
                 THEN Insert(p[1], InsertIdx(p[1]), SummaryMessage(p[2]))
                 ELSE p[1]
         IN [s EXCEPT !.messages = new_messages,
                      !.context = PyPut(PyPut(@, COMPACTED_AT, now),
                                          REMOVED_MESSAGES, PyInt(Len(p[2])))]

\* json.dump: None is null, a str a string, an int a number, a list or a tuple
\* an array, a dict an object whose keys are strings (an int key is written
\* as its digits)
RECURSIVE JsonDump(_)
JsonDump(v) ==
    CASE v[1] = "none" -> <<"null">>
      [] v[1] = "str" -> <<"string", v[2]>>
      [] v[1] = "int" -> <<"number", v[2]>>
      [] v[1] \in {"list", "tuple"} ->
            <<"array", [i \in 1..Len(v[2]) |-> JsonDump(v[2][i])]>>
      [] v[1] = "dict" ->
            <<"object",
              [i \in 1..Len(v[2]) |->
                  << IF v[2][i][1][1] = "int" THEN IntStr(v[2][i][1][2])
                     ELSE v[2][i][1][2],
                     JsonDump(v[2][i][2]) >>]>>

\* json.load: null is None, a string a str, a number an int, an array a list,
\* an object a dict with str keys
RECURSIVE JsonLoad(_)
JsonLoad(j) ==
    CASE j[1] = "null" -> PyNone
      [] j[1] = "string" -> PyStr(j[2])
      [] j[1] = "number" -> PyInt(j[2])
      [] j[1] = "array" -> PyList([i \in 1..Len(j[2]) |-> JsonLoad(j[2][i])])
      [] j[1] = "object" ->
            PyDict([i \in 1..Len(j[2]) |->
                       << PyStr(j[2][i][1]), JsonLoad(j[2][i][2]) >>])

\* SessionMetadata
SessionMetadata(id, created_at, updated_at, provider, model_name, title,
                message_count, total_tokens) ==
    [id |-> id, created_at |-> created_at, updated_at |-> updated_at,
     provider |-> provider, model |-> model_name, title |-> title,
     message_count |-> message_count, total_tokens |-> total_tokens]

\* Session
Session(metadata, msgs, context) ==
    [metadata |-> metadata, messages |-> msgs, context |-> context]

\* the key named t of a dict
Key(t) == Str(t, Len(t))

\* dataclasses.asdict(metadata)
AsDict(md) ==
    PyDict(<< <<Key("id"), md.id>>,
              <<Key("created_at"), md.created_at>>,
              <<Key("updated_at"), md.updated_at>>,
              <<Key("provider"), md.provider>>,
              <<Key("model"), md.model>>,
              <<Key("title"), md.title>>,
              <<Key("message_count"), md.message_count>>,
              <<Key("total_tokens"), md.total_tokens>> >>)

\* the dict to_dict makes of one message
MessageDict(m) ==
    PyDict(<< <<Key("role"), m.role>>,
              <<Key("content"), m.content>>,
              <<Key("name"), m.name>>,
              <<Key("tool_calls"), m.tool_calls>>,
              <<Key("tool_call_id"), m.tool_call_id>> >>)

\* Session.to_dict
ToDict(s) ==
    PyDict(<< <<Key("metadata"), AsDict(s.metadata)>>,
              <<Key("messages"),
                PyList([i \in 1..Len(s.messages) |-> MessageDict(s.messages[i])])>>,
              <<Key("context"), s.context>> >>)

\* variant: the optional fields of a message are not read back
MessageFromDictRequiredOnly(m) ==
    Message(PyGet(m, Key("role"), PyNone),
            PyGet(m, Key("content"), PyNone),
            PyNone, PyNone, PyNone)

\* the Message from_dict makes of one dict: m["role"], m["content"],
\* m.get("name"), m.get("tool_calls"), m.get("tool_call_id")
MessageFromDict(m) ==
    Message(PyGet(m, Key("role"), PyNone),
            PyGet(m, Key("content"), PyNone),
            PyGet(m, Key("name"), PyNone),
            PyGet(m, Key("tool_calls"), PyNone),
            PyGet(m, Key("tool_call_id"), PyNone))

\* Session.from_dict: SessionMetadata(**data["metadata"]), the messages of
\* data.get("messages", []), data.get("context", {})
FromDict(data) ==
    LET md == PyGet(data, Key("metadata"), PyDict(<<>>))
        ms == PyGet(data, Key("messages"), PyList(<<>>))
    IN Session(SessionMetadata(PyGet(md, Key("id"), PyNone),
                               PyGet(md, Key("created_at"), PyNone),
                               PyGet(md, Key("updated_at"), PyNone),
                               PyGet(md, Key("provider"), PyNone),
                               PyGet(md, Key("model"), PyNone),
                               PyGet(md, Key("title"), PyNone),
                               PyGet(md, Key("message_count"), PyNone),
                               PyGet(md, Key("total_tokens"), PyNone)),
               [i \in 1..Len(ms[2]) |-> MessageFromDict(ms[2][i])],
               PyGet(data, Key("context"), PyDict(<<>>)))

\* compact_session's default keep_last_n
DefaultKeepLastN == 10

\* the values datetime.now().isoformat() takes
Now == {Str("t1", 26), Str("t2", 26)}

\* the session ids, each the name of a file of storage_dir
SessionIds == {"s1", "s2"}

\* the max_tokens a manager is constructed with: one that a single long
\* message fills, and the default
MaxTokenChoices == {1000, 100000}

\* a file that does not exist; the None that load returns for it
NoFile == <<"nofile">>
NoSession ==
    Session(SessionMetadata(PyNone, PyNone, PyNone, PyNone, PyNone, PyNone,
                            PyNone, PyNone),
            <<>>, PyNone)

\* SessionManager.create(provider, model) at time now, with the id drawn
Created(id, now) ==
    Session(SessionMetadata(Str(id, 12), now, now, Str("p", 1), Str("m", 1),
                            Str("Session", 14), PyInt(0), PyInt(0)),
            <<>>, PyDict(<<>>))

\* the file of a session id
PathOf(id) == id[2][1].t

\* the messages added to a session
SystemPromptMessage == PlainMessage(SYSTEM, Str("S", 40))
SystemNote == PlainMessage(SYSTEM, Str("ctx", 20))
UserMessage == PlainMessage(USER, Str("u", 4000))
AssistantMessage == PlainMessage(ASSISTANT, Str("a", 60))
ToolCallMessage ==
    Message(ASSISTANT, PyStr(<<>>), PyNone,
            PyList(<< PyDict(<< <<Key("id"), Str("c1", 2)>>,
                                <<Key("name"), Str("read_file", 9)>>,
                                <<Key("arguments"),
                                  PyDict(<< <<Key("path"), Str("f", 1)>> >>)>> >>) >>),
            PyNone)
ToolResultMessage ==
    Message(TOOL, Str("r", 30), Str("read_file", 9), PyNone, Str("c1", 2))

\* the arguments of the last call on the manager
Call(op, message, auto_compact, keep_system, keep_last_n, summarize, id) ==
    [op |-> op, message |-> message, auto_compact |-> auto_compact,
     keep_system |-> keep_system, keep_last_n |-> keep_last_n,
     summarize |-> summarize, id |-> id]

NoMessage == Message(PyNone, PyNone, PyNone, PyNone, PyNone)

\* no manager is in use
SessIdle ==
    /\ max_tokens = 0
    /\ session = NoSession
    /\ files = [id \in SessionIds |-> NoFile]
    /\ loaded = NoSession
    /\ sm_call = Call("none", NoMessage, FALSE, FALSE, 0, FALSE, PyNone)

\* a manager on an empty storage_dir has created a session
InitManager ==
    /\ max_tokens \in MaxTokenChoices
    /\ \E id \in SessionIds : session = Created(id, Str("t0", 26))
    /\ files = [id \in SessionIds |-> NoFile]
    /\ loaded = NoSession
    /\ sm_call = Call("create", NoMessage, FALSE, FALSE, 0, FALSE, PyNone)

\* add_message(session, message, auto_compact): the message is appended, and
\* with auto_compact the session is compacted with the default arguments when
\* should_compact holds
AddMessage(message, auto_compact, now) ==
    /\ LET appended == [session EXCEPT !.messages = Append(@, message)]
       IN session' = IF auto_compact /\ ShouldCompact(appended.messages)
                     THEN Compacted(appended, TRUE, DefaultKeepLastN, TRUE, now)
                     ELSE appended
    /\ sm_call' = Call("add_message", message, auto_compact, FALSE, 0, FALSE, PyNone)
    /\ UNCHANGED <<max_tokens, files, loaded>>
    /\ UNCHANGED sessFrame

\* compact_session(session, keep_system, keep_last_n, summarize)
CompactSession(keep_system, keep_last_n, summarize, now) ==
    /\ session' = Compacted(session, keep_system, keep_last_n, summarize, now)
    /\ sm_call' = Call("compact_session", NoMessage, FALSE, keep_system,
                       keep_last_n, summarize, PyNone)
    /\ UNCHANGED <<max_tokens, files, loaded>>
    /\ UNCHANGED sessFrame

\* save(session): updated_at and message_count are set, then the dict of the
\* session is written to the file of its id
Save(now) ==
    /\ LET saved == [session EXCEPT
                        !.metadata.updated_at = now,
                        !.metadata.message_count = PyInt(Len(session.messages))]
       IN /\ session' = saved
          /\ files' = [files EXCEPT ![PathOf(saved.metadata.id)] =
                                        JsonDump(ToDict(saved))]
    /\ sm_call' = Call("save", NoMessage, FALSE, FALSE, 0, FALSE, session.metadata.id)
    /\ UNCHANGED <<max_tokens, loaded>>
    /\ UNCHANGED sessFrame

\* load(session_id): None without the file, else the session made of the
\* file's JSON
Load(id) ==
    /\ loaded' = IF files[id] = NoFile THEN NoSession
                 ELSE FromDict(JsonLoad(files[id]))
    /\ sm_call' = Call("load", NoMessage, FALSE, FALSE, 0, FALSE, Str(id, 12))
    /\ UNCHANGED <<max_tokens, session, files>>
    /\ UNCHANGED sessFrame

\* -------------------------------- WorkflowEngine (orchestrator/workflow.py)
\* the longest step list of a workflow definition
MaxSteps == 3

\* the largest iteration index of a result handed to check_stop
MaxIteration == 11

\* the agent names a step can carry, the role labels of the steps by position
\* and the keys of the provider dicts an engine is constructed with, in
\* insertion order
StepAgents == {"claude", "GPT", "ghost"}
StepRoles == <<"implement", "review", "refine", "verify">>
ProviderMaps == { <<"claude", "gpt-4">>, <<"gpt-4o", "gpt-4">> }

\* str.lower() of a name
Lower(name) ==
    CASE name = "GPT" -> "gpt"
      [] name = "Continuous" -> "continuous"
      [] OTHER -> name

\* `needle in name` for lower-cased names
Contains(name, needle) ==
    \/ needle = name
    \/ needle = "gpt" /\ name \in {"gpt-4", "gpt-4o"}

\* the values of ExecutionMode
ExecutionModes == {"sequential", "parallel", "round_robin", "continuous"}

\* the mode entries of a workflow definition
ModeEntries == {"sequential", "round_robin", "Continuous", "pipeline"}

\* the stop_conditions entries of a workflow definition: dicts with type and
\* any of value, threshold (numbers) and keyword (a text)
ConditionEntries ==
    { [type |-> "max_iterations"],
      [type |-> "max_iterations", value |-> 0],
      [type |-> "max_iterations", value |-> 2],
      [type |-> "max_iterations", threshold |-> 0],
      [type |-> "max_iterations", threshold |-> 2],
      [type |-> "keyword", keyword |-> "LGTM"] }

\* the definitions load_workflow reads
WorkflowEntries ==
    [ mode : ModeEntries,
      steps : UNION {[1..n -> StepAgents] : n \in 0..MaxSteps},
      stop_conditions : {<<>>} \cup {<<c>> : c \in ConditionEntries} ]

WorkflowStep(agent, role, prompt_template) ==
    [agent |-> agent, role |-> role, prompt_template |-> prompt_template]

\* StopCondition.from_dict: value = data.get("value") or data.get("threshold")
\* or data.get("keyword"); a number 0 is falsy, a missing key gives None
StopConditionFromDict(data) ==
    IF "value" \in DOMAIN data /\ data["value"] # 0
    THEN StopCondition(data["type"], TRUE, data["value"], "")
    ELSE IF "threshold" \in DOMAIN data /\ data["threshold"] # 0
    THEN StopCondition(data["type"], TRUE, data["threshold"], "")
    ELSE IF "keyword" \in DOMAIN data
    THEN StopCondition(data["type"], FALSE, 0, data["keyword"])
    ELSE StopCondition(data["type"], FALSE, 0, "")

\* WorkflowConfig.from_dict: an entry that is no ExecutionMode value after
\* lower() gives sequential
WorkflowConfig(data) ==
    [mode |-> IF Lower(data.mode) \in ExecutionModes THEN Lower(data.mode)
              ELSE "sequential",
     steps |-> [i \in 1..Len(data.steps) |->
                   WorkflowStep(data.steps[i], StepRoles[i], <<"task">>)],
     stop_conditions |-> [k \in 1..Len(data.stop_conditions) |->
                             StopConditionFromDict(data.stop_conditions[k])]]

NoWorkflow == [mode |-> "<None>", steps |-> <<>>, stop_conditions |-> <<>>]
NoDefinition == [mode |-> "<None>", steps |-> <<>>, stop_conditions |-> <<>>]

\* the WorkflowConfig objects a caller builds and hands to execute_workflow
BuiltWorkflows ==
    { [mode |-> "continuous",
       steps |-> << WorkflowStep("claude", "implement", <<"task">>),
                    WorkflowStep("GPT", "review", <<"task">>) >>,
       stop_conditions |-> << StopCondition("max_iterations", TRUE, v, "") >>] :
      v \in {0, 2} }

\* the provider bound to a step: the one under the agent's name, else the
\* first whose key contains the name, both lower-cased; "<None>" without one
ProviderFor(provs, agent) ==
    IF \E k \in 1..Len(provs) : provs[k] = agent THEN agent
    ELSE LET M == {k \in 1..Len(provs) : Contains(Lower(provs[k]), Lower(agent))}
         IN IF M = {} THEN "<None>"
            ELSE provs[CHOOSE k \in M : \A l \in M : k <= l]

\* next_agent of the step at position i (positions from 1)
NextAgentOf(wf, i) ==
    IF i < Len(wf.steps) THEN wf.steps[i + 1].agent
    ELSE IF wf.mode = "continuous" THEN wf.steps[1].agent
    ELSE "<None>"

\* the AgentRole built for a step, with the provider bound to it
BoundRole(step, provider, next_agent) ==
    [name |-> step.agent, provider |-> provider, role |-> step.role,
     prompt_template |-> step.prompt_template, next_agent |-> next_agent]

\* roles[name] = r on a dict kept as its values in insertion order: the value
\* of an existing key is replaced in place
RoleSet(rs, r) ==
    IF \E k \in 1..Len(rs) : rs[k].name = r.name
    THEN [k \in 1..Len(rs) |-> IF rs[k].name = r.name THEN r ELSE rs[k]]
    ELSE Append(rs, r)

RECURSIVE BuildFrom(_, _, _, _)
\* the loop of _build_agent_roles from step i on, rs the dict so far
BuildFrom(provs, wf, i, rs) ==
    IF i > Len(wf.steps) THEN rs
    ELSE LET step == wf.steps[i]
             provider == ProviderFor(provs, step.agent)
         IN IF provider = "<None>"
            THEN BuildFrom(provs, wf, i + 1, rs)
            ELSE BuildFrom(provs, wf, i + 1,
                           RoleSet(rs, BoundRole(step, provider, NextAgentOf(wf, i))))

\* WorkflowEngine._build_agent_roles(workflow)
BuildAgentRoles(provs, wf) == BuildFrom(provs, wf, 1, <<>>)

\* what check_stop last answered: the iteration of the result, the answer of
\* each condition's check, and their disjunction
StopCheck(iter, matches, stop) == [iteration |-> iter, matches |-> matches, stop |-> stop]

NoStopCheck == StopCheck(0, <<>>, FALSE)

\* no engine is in use
WfIdle ==
    /\ providers = <<>>
    /\ workflow = NoWorkflow
    /\ roles = <<>>
    /\ wf_pc = "idle"
    /\ definition = NoDefinition
    /\ wf_check = NoStopCheck

\* WorkflowEngine(providers)
InitEngine ==
    /\ providers \in ProviderMaps
    /\ workflow = NoWorkflow
    /\ roles = <<>>
    /\ wf_pc = "engine"
    /\ definition = NoDefinition
    /\ wf_check = NoStopCheck

\* load_workflow: the definition is turned into a WorkflowConfig
LoadWorkflow(data) ==
    /\ wf_pc = "engine"
    /\ workflow' = WorkflowConfig(data)
    /\ definition' = data
    /\ wf_pc' = "loaded"
    /\ UNCHANGED <<providers, roles, wf_check>>
    /\ UNCHANGED wfFrame

\* the caller builds the WorkflowConfig itself
BuildWorkflow(wf) ==
    /\ wf_pc = "engine"
    /\ workflow' = wf
    /\ wf_pc' = "loaded"
    /\ UNCHANGED <<providers, roles, definition, wf_check>>
    /\ UNCHANGED wfFrame

\* execute_workflow builds the role mapping; without a role it returns
ExecuteWorkflow ==
    /\ wf_pc = "loaded"
    /\ roles' = BuildAgentRoles(providers, workflow)
    /\ wf_pc' = IF BuildAgentRoles(providers, workflow) = <<>> THEN "no_agents"
                ELSE "running"
    /\ UNCHANGED <<providers, workflow, definition, wf_check>>
    /\ UNCHANGED wfFrame

\* the strategy hands a successful result to check_stop: round-robin when
\* stop conditions are configured, continuous always
CallCheckStop(iter) ==
    /\ wf_pc = "running"
    /\ \/ workflow.mode = "continuous"
       \/ workflow.mode = "round_robin" /\ workflow.stop_conditions # <<>>
    /\ LET result == ExecutionResult(roles[1].name, roles[1].role, TRUE,
                                     <<"fine">>, NoneText, iter)
       IN wf_check' = StopCheck(iter,
                                [k \in 1..Len(workflow.stop_conditions) |->
                                    Check(workflow.stop_conditions[k], result)],
                                CheckStop(workflow.stop_conditions, result))
    /\ UNCHANGED <<providers, workflow, roles, wf_pc, definition>>
    /\ UNCHANGED wfFrame

\* the name lists a chunk of a stream can add
ChunkToolNames ==
    UNION { [1..n -> ToolNames] : n \in 0..MaxCallsPerResponse }

Next ==
    \/ \E u \in UserTexts, s \in BOOLEAN : ProcessMessage(u, s)
    \/ WhileLoop
    \/ /\ pc = "provider" /\ ~stream
       /\ \E c \in Contents, tcs \in ToolCallLists(iteration) : ProviderComplete(c, tcs)
    \/ /\ pc = "provider" /\ stream
       /\ \E c \in ChunkContents, tcs \in ChunkToolNames, f \in BOOLEAN :
             StreamChunk(c, tcs, f)
    \/ StreamEnd
    \/ ProviderRaise
    \/ ForTool
    \/ \E a \in BOOLEAN : ConfirmReturns(a)
    \/ ConfirmRaises
    \/ \E o \in HandlerOutcomes : HandlerReturns(o)
    \/ Reset
    \/ \E c \in ContextTexts, r \in ContextRoles : AddContext(c, r)

\* no orchestrator run is in progress
OrchestratorIdle == SeqIdle /\ ParIdle /\ RRIdle /\ ContIdle /\ SessIdle /\ WfIdle

Init == InitAgent /\ OrchestratorIdle

Spec == Init /\ [][Next]_vars

\* ================================================================ claims
LastMessage == messages[Len(messages)]

\* position of the most recent assistant message, 0 when there is none
LastAssistant ==
    LET S == {i \in 1..Len(messages) : messages[i].role = "assistant"}
    IN IF S = {} THEN 0 ELSE CHOOSE i \in S : \A j \in S : j <= i

\* C1: tool_calls_this_turn never exceeds max_tool_calls_per_turn, in streaming
\* and non-streaming tasks, whatever the provider returns.
C1_ToolCallsWithinCap == tool_calls_this_turn <= max_tool_calls_per_turn

\* a response asked for more calls than the budget had left and was cut short
C1_Witness ==
    /\ event = "cap_reached"
    /\ max_tool_calls_per_turn >= 1
    /\ tool_calls_this_turn = max_tool_calls_per_turn

\* C2: once the cap marker has been emitted in a task, the rest of the response
\* is not executed and the task ends: no tool runs and no completion is
\* requested until the next task.
C2_CapEndsTask == cap_marker => pc \in {"while", "idle"}

\* C3: a response without tool calls sets is_complete and last_response to its
\* content, and a completed task makes no provider request and no tool call.
C3_NoToolCallsCompletes ==
    /\ event = "final_response" =>
          /\ is_complete
          /\ LastMessage.role = "assistant"
          /\ LastMessage.tool_calls = <<>>
          /\ last_response = LastMessage.content
    /\ is_complete => /\ pc \in {"while", "idle"}
                      /\ running = <<>>

\* the task returned on a final response while iterations were left
C3_Witness ==
    /\ pc = "idle"
    /\ outcome = "returned"
    /\ is_complete
    /\ requests < max_iterations
    /\ last_response = LastMessage.content

\* a variant of the running task: iterations left, then the position in the turn
TurnSteps == 3 * MaxCallsPerResponse + MaxChunks + 3

Measure ==
    (max_iterations - iteration) * TurnSteps +
    CASE pc = "provider" -> 3 * MaxCallsPerResponse + 2 + (MaxChunks - chunks)
      [] pc = "for"      -> 3 * (Len(tool_calls) - idx + 1) + 1
      [] pc = "confirm"  -> 3 * (Len(tool_calls) - idx + 1)
      [] pc = "handler"  -> 3 * (Len(tool_calls) - idx + 1) - 1
      [] OTHER           -> 0

\* C4: a task makes at most max_iterations completion requests and, as long as
\* every call returns, ends: each step of a running task either ends it or
\* decreases a natural-number variant.
C4_TerminatesWithinMaxIterations ==
    /\ [](requests <= max_iterations /\ (pc # "idle" => Measure >= 0))
    /\ [][pc # "idle" => (pc' = "idle" \/ Measure' < Measure)]_vars

\* every response asked for tools and the task ended on the iteration bound
C4_Witness ==
    /\ pc = "idle"
    /\ outcome = "returned"
    /\ ~is_complete
    /\ max_iterations >= 2
    /\ requests = max_iterations

\* C5: the tool calls of a response are invoked one at a time in the order
\* returned: at most one invocation is in flight, the loop is suspended on it,
\* and the tool messages after the assistant message are those of the calls
\* before the current one, in call order.
C5_ToolsOneAtATimeInOrder ==
    /\ Len(running) <= 1
    /\ running # <<>> <=> pc \in {"confirm", "handler"}
    /\ running # <<>> => running[1] = idx
    /\ pc \in {"for", "confirm", "handler"} =>
          /\ LastAssistant > 0
          /\ messages[LastAssistant].tool_calls = tool_calls
          /\ Len(messages) - LastAssistant = idx - 1
          /\ \A j \in 1..(idx - 1) :
                /\ messages[LastAssistant + j].role = "tool"
                /\ messages[LastAssistant + j].tool_call_id = tool_calls[j].id

\* the second call of a response is in flight after the first one was recorded
C5_Witness ==
    /\ pc = "handler"
    /\ idx = 2
    /\ LastMessage.role = "tool"
    /\ LastMessage.tool_call_id = tool_calls[1].id

\* C6: when a tool requires confirmation, confirmation is enabled and the
\* callback declines, the handler does not run for that call, the tool message
\* of the call reports the cancellation by the user, and the loop goes on to
\* the next call of the response.
C6_DeclinedToolNotExecuted ==
    /\ (pc = "handler" /\ NeedsConfirmation(RegistryGet(tool_calls[idx].name),
                                            ConfirmCallbackPassed))
          => confirmed = "yes"
    /\ event = "declined" =>
          /\ pc = "for"
          /\ outcome = "none"
          /\ running = <<>>
          /\ idx >= 2
          /\ LastMessage.role = "tool"
          /\ LastMessage.tool_call_id = tool_calls[idx - 1].id
          /\ LastMessage.name = tool_calls[idx - 1].name
          /\ LastMessage.content = <<"Error: ", "Tool execution cancelled by user">>

\* the first call was declined and recorded, the second call is being handled
C6_Witness ==
    /\ pc = "confirm"
    /\ idx = 2
    /\ confirm_dangerous_tools
    /\ LastMessage.content = <<"Error: ", "Tool execution cancelled by user">>
    /\ LastMessage.tool_call_id = tool_calls[1].id

\* the steps at which a tool-level fault shows
ToolFaultEvents == {"unknown_tool", "fail", "raise", "confirm_fault"}

\* C7: a tool-level fault (unknown name, handler raising, handler returning a
\* failure, fault while asking for confirmation) does not abort the task: it is
\* recorded as a tool message starting with "Error: " and the loop over the
\* calls of the response goes on.
C7_ToolFaultNeverAborts ==
    event \in ToolFaultEvents =>
        /\ outcome # "raised"
        /\ pc = "for"
        /\ LastMessage.role = "tool"
        /\ Head(LastMessage.content) = "Error: "

\* C8: a provider fault ends the task at once (the generator raises), with the
\* history exactly as it was before the request and nothing else touched.
C8_ProviderFaultPropagates ==
    /\ [](outcome = "raised" => pc = "idle" /\ running = <<>>)
    /\ [][(pc = "provider" /\ outcome' = "raised") =>
             /\ messages' = messages
             /\ pc' = "idle"
             /\ requests' = requests
             /\ tool_calls_this_turn' = tool_calls_this_turn
             /\ is_complete' = is_complete
             /\ last_response' = last_response]_vars

\* the provider failed on the second request of a streaming task, after an
\* assistant message and a tool message had been appended
C8_Witness ==
    /\ event = "stream_fault_partial"
    /\ requests = 2
    /\ LastMessage.role = "tool"

\* C9: the first message of the history is the system message holding the
\* configured system prompt, after construction and after any sequence of
\* process_message, add_context and reset.
C9_FirstMessageIsSystemPrompt ==
    /\ Len(messages) >= 1
    /\ messages[1] = Message("system", SystemPrompt, "<None>", <<>>, 0)

\* a context message was added after a task had run
C9_Witness ==
    /\ event = "add_context"
    /\ Len(messages) >= 3
    /\ \E i \in 2..Len(messages) : messages[i].role = "user" /\ messages[i].content \in UserTexts

\* the agent at rest while the orchestrator runs
AgentIdle ==
    /\ InitAgent
    /\ max_iterations = 1
    /\ max_tool_calls_per_turn = 1
    /\ confirm_dangerous_tools

NextSeq ==
    \/ SeqLoop
    \/ \E c \in SeqOutputs : SeqProviderReturns(c)
    \/ SeqProviderRaises

InitSeq == AgentIdle /\ InitSequential /\ ParIdle /\ RRIdle /\ ContIdle /\ SessIdle /\ WfIdle

SpecSeq == InitSeq /\ [][NextSeq]_vars

\* the position of the first agent of agent_order that fails: its name is not
\* in the mapping or its provider raises; 0 when none fails
FirstFailing ==
    LET F == {j \in 1..Len(agent_order) :
                 agent_order[j] \notin DOMAIN Agents \/ behaviour[j] = "raise"}
    IN IF F = {} THEN 0 ELSE CHOOSE j \in F : \A k \in F : j <= k

\* C10: when the k-th agent of agent_order is the first to fail, the run
\* returns a result with total_iterations = k and exactly k entries, success
\* false, and no agent after the k-th is invoked or listed.
C10_SequentialStopsAtFirstFailure ==
    FirstFailing > 0 =>
        /\ Len(invoked) <= FirstFailing
        /\ Len(results) <= FirstFailing
        /\ seq_pc \in {"loop", "provider", "done"}
        /\ seq_pc = "done" =>
              /\ seq_result.total_iterations = FirstFailing
              /\ Len(seq_result.results) = FirstFailing
              /\ ~seq_result.success

\* the position of the first name of agent_order that is not in the mapping,
\* 0 when every name is known
FirstUnknown ==
    LET U == {j \in 1..Len(agent_order) : agent_order[j] \notin DOMAIN Agents}
    IN IF U = {} THEN 0 ELSE CHOOSE j \in U : \A k \in U : j <= k

\* C11: in sequential mode a name that is not in the agent mapping gives a
\* failed result without a provider call and stops the run: no agent listed
\* after it is invoked and nothing is recorded after its result.
C11_UnknownAgentStopsRun ==
    FirstUnknown > 0 =>
        /\ seq_pc = "provider" => seq_i < FirstUnknown
        /\ Len(results) <= FirstUnknown
        /\ Len(results) = FirstUnknown =>
              /\ ~results[FirstUnknown].success
              /\ results[FirstUnknown].agent_name = agent_order[FirstUnknown]

\* every name of agent_order is known and every provider call succeeds
AllKnownAndSucceeding ==
    \A j \in 1..Len(agent_order) :
        agent_order[j] \in DOMAIN Agents /\ behaviour[j] = "ok"

\* C12: in a sequential run of two or more agents that all exist and all
\* succeed, every agent of agent_order is invoked once, in order, agent i+1 is
\* prompted with the output of agent i as task and previous_output, and the
\* run returns one successful result per agent with success true.
C12_SequentialChainsOutputs ==
    (Len(agent_order) >= 2 /\ AllKnownAndSucceeding) =>
        /\ seq_pc \in {"loop", "provider", "done"}
        /\ \A j \in 1..Len(invoked) :
              /\ j <= Len(agent_order)
              /\ invoked[j].agent = agent_order[j]
              /\ j >= 2 =>
                    /\ Len(results) >= j - 1
                    /\ invoked[j].prompt =
                          Substitute(Agents[agent_order[j]].prompt_template,
                                     [k \in {"task", "previous_output"} |->
                                         results[j - 1].content])
        /\ seq_pc = "done" =>
              /\ Len(invoked) = Len(agent_order)
              /\ Len(seq_result.results) = Len(agent_order)
              /\ \A j \in 1..Len(agent_order) :
                    /\ seq_result.results[j].success
                    /\ seq_result.results[j].agent_name = agent_order[j]
              /\ seq_result.success

\* C13 as stated: the final output of a sequential run is the content of the
\* last successful result of the list, also when the run ended on a failure.
C13_FinalOutputIsLastSuccessful ==
    seq_pc = "done" =>
        seq_result.final_output = LastSuccessfulContent(seq_result.results)

\* C13: the final output of a sequential run that returns is the content of
\* the last result of the list when that result succeeded, and the empty text
\* when the list is empty or its last result failed.
C13_FinalOutputIsLastResultIfSuccessful ==
    seq_pc = "done" =>
        /\ seq_result.results = results
        /\ seq_result.final_output =
              IF results # <<>> /\ results[Len(results)].success
              THEN results[Len(results)].content
              ELSE <<>>

\* a run returned whose list holds a successful result followed by a failed one
C13_Witness ==
    /\ seq_pc = "done"
    /\ Len(results) >= 2
    /\ results[1].success
    /\ results[1].content # <<>>
    /\ ~results[Len(results)].success
    /\ seq_result.final_output = <<>>

NextPar ==
    \/ RunAgent
    \/ \E j \in 1..Len(agent_names), c \in ParOutputs : ParProviderReturns(j, c)
    \/ \E j \in 1..Len(agent_names) : ParProviderRaises(j)
    \/ ParMerge

InitPar == AgentIdle /\ SeqIdle /\ InitParallel /\ RRIdle /\ ContIdle /\ SessIdle /\ WfIdle

SpecPar == InitPar /\ [][NextPar]_vars

\* C14: in parallel mode, for every list of names, every mix of failing,
\* succeeding and unknown agents and every completion order, the result list
\* is as long as agent_names and its i-th entry is the value returned for the
\* i-th name.
C14_ParallelResultsInInputOrder ==
    par_pc = "done" =>
        /\ Len(par_result.results) = Len(agent_names)
        /\ \A i \in 1..Len(agent_names) :
              /\ par_result.results[i] = par_results[i]
              /\ par_result.results[i].agent_name = agent_names[i]
              /\ par_result.results[i].success <=> par_behaviour[i] = "ok"
              /\ par_behaviour[i] = "none" <=> par_result.results[i].role = "unknown"

\* three names, one unknown, one failing and one succeeding, completed in an
\* order that is not the order of the list
C14_Witness ==
    /\ par_pc = "done"
    /\ Len(agent_names) = 3
    /\ {par_behaviour[i] : i \in 1..3} = {"ok", "raise", "none"}
    /\ par_completed[3] = 1
    /\ par_behaviour[par_completed[2]] = "ok"

\* C15: in parallel mode the provider of every named known agent is invoked
\* exactly once, with the prompt built from the original task, also when other
\* agents of the run fail, and the merge is computed only after every
\* invocation has completed.
C15_ParallelInvokesAllThenMerges ==
    /\ \A e \in 1..Len(par_invoked) :
          /\ par_invoked[e].pos \in 1..Len(agent_names)
          /\ par_invoked[e].agent = agent_names[par_invoked[e].pos]
          /\ par_invoked[e].agent \in DOMAIN ParallelAgents
          /\ par_invoked[e].prompt =
                Substitute(ParallelAgents[par_invoked[e].agent].prompt_template,
                           [k \in {"task"} |-> Task])
          /\ \A f \in 1..Len(par_invoked) :
                par_invoked[e].pos = par_invoked[f].pos => e = f
    /\ par_pc = "done" =>
          /\ {par_invoked[e].pos : e \in 1..Len(par_invoked)} =
                {i \in 1..Len(agent_names) : agent_names[i] \in DOMAIN ParallelAgents}
          /\ ParInFlight = {}
          /\ \A i \in 1..Len(agent_names) : par_results[i] # NoExecutionResult

\* a run returned in which an agent failed before another agent, invoked
\* after it, succeeded
C15_Witness ==
    /\ par_pc = "done"
    /\ \E i, j \in 1..Len(agent_names) :
          /\ i < j
          /\ par_behaviour[i] = "raise"
          /\ par_behaviour[j] = "ok"
          /\ \E x, y \in 1..Len(par_completed) :
                x < y /\ par_completed[x] = i /\ par_completed[y] = j
          /\ par_results[j].success

\* the j-th smallest element of a set of numbers
Nth(S, j) == CHOOSE x \in S : Cardinality({y \in S : y < x}) = j - 1

\* the positions of agent_names whose agent succeeded
SucceededPositions == {i \in 1..Len(agent_names) : par_behaviour[i] = "ok"}

\* C16: a parallel run has success true exactly when at least one agent
\* succeeded, and with merge_strategy combine its final output is made of one
\* labeled block per successful agent, in the order of agent_names, separated
\* by rules, with no block for a failed agent.
C16_ParallelSuccessAndCombine ==
    par_pc = "done" =>
        /\ par_result.success <=> SucceededPositions # {}
        /\ par_result.total_iterations = 1
        /\ merge_strategy = "combine" =>
              LET out == par_result.final_output
                  starts == {k \in 1..Len(out) : out[k] = "**"}
                  rules == {k \in 1..Len(out) : out[k] = "\n\n---\n\n"}
                  n == Cardinality(SucceededPositions)
              IN /\ Cardinality(starts) = n
                 /\ Cardinality(rules) = IF n = 0 THEN 0 ELSE n - 1
                 /\ n = 0 => out = <<>>
                 /\ \A j \in 1..n :
                       LET k == Nth(starts, j)
                           r == par_results[Nth(SucceededPositions, j)]
                       IN /\ k + 4 + Len(r.content) <= Len(out)
                          /\ SubSeq(out, k, k + 4) =
                                <<"**", r.agent_name, " (", r.role, "):**\n">>
                          /\ SubSeq(out, k + 5, k + 4 + Len(r.content)) = r.content
                          /\ j < n => out[k + 5 + Len(r.content)] = "\n\n---\n\n"
                          /\ j = n => Len(out) = k + 4 + Len(r.content)

\* three agents, one of which failed, merged by combine
C16_Witness ==
    /\ par_pc = "done"
    /\ merge_strategy = "combine"
    /\ Len(agent_names) = 3
    /\ Cardinality(SucceededPositions) = 2
    /\ \E i \in 1..3 : par_behaviour[i] = "raise"
    /\ par_result.success
    /\ Len(par_result.results) = 3

NextRR ==
    \/ RRLoop
    \/ \E c \in RROutputs : RRProviderReturns(c)
    \/ RRProviderRaises

InitRR == AgentIdle /\ SeqIdle /\ ParIdle /\ InitRoundRobin /\ ContIdle /\ SessIdle /\ WfIdle

SpecRR == InitRR /\ [][NextRR]_vars

\* the j-th result of the round-robin run is successful and matched by a
\* configured Stop Condition
Matched(j) ==
    /\ rr_results[j].success
    /\ \E k \in 1..Len(stop_conditions) : Check(stop_conditions[k], rr_results[j])

\* C17: in round-robin mode, once a configured Stop Condition matches the
\* result of a successful invocation, the run has returned: that result is the
\* last of the list, no agent is invoked after it in that round or a later one,
\* and the run reports success with the content of that result as final output.
C17_StopConditionEndsRoundRobin ==
    \A j \in 1..Len(rr_results) :
        Matched(j) =>
            /\ j = Len(rr_results)
            /\ rr_pc = "done"
            /\ Len(rr_invoked) <= j
            /\ rr_result.success
            /\ rr_result.results = rr_results
            /\ rr_result.final_output = rr_results[j].content
            /\ rr_result.total_iterations = j

\* the first agent of a two-agent order matched in the second round, through
\* the second condition of the list, and the second agent was not invoked again
C17_Witness ==
    /\ rr_pc = "done"
    /\ Len(rr_order) = 2
    /\ Len(stop_conditions) = 2
    /\ Len(rr_results) = 3
    /\ Matched(3)
    /\ ~Check(stop_conditions[1], rr_results[3])
    /\ round_num = 1
    /\ rr_i = 1
    /\ Len(rr_invoked) = 3

\* no result of the run is matched by a Stop Condition
NothingMatched == \A j \in 1..Len(rr_results) : ~Matched(j)

\* the positions of rr_order whose name is in the agent mapping
RRKnownPositions == {i \in 1..Len(rr_order) : rr_order[i] \in DOMAIN RoundRobinAgents}

\* C18: a round-robin run in which no Stop Condition matches makes at most
\* max_rounds * len(agent_order) provider invocations and then returns, with
\* success true exactly when an invocation succeeded and with the last running
\* state as final output: the most recent successful output, or the original
\* task when nothing succeeded.
C18_RoundRobinExhausted ==
    /\ Len(rr_invoked) <= max_rounds * Len(rr_order)
    /\ (rr_pc = "done" /\ NothingMatched) =>
          /\ Len(rr_invoked) = max_rounds * Cardinality(RRKnownPositions)
          /\ rr_result.results = rr_results
          /\ rr_result.total_iterations = Len(rr_results)
          /\ rr_result.success <=> \E j \in 1..Len(rr_results) : rr_results[j].success
          /\ rr_result.final_output =
                IF \E j \in 1..Len(rr_results) : rr_results[j].success
                THEN LastSuccessfulContent(rr_results)
                ELSE Task

\* two full rounds of two agents without a match, ending on a failed
\* invocation after a successful one
C18_Witness ==
    /\ rr_pc = "done"
    /\ NothingMatched
    /\ stop_conditions # <<>>
    /\ max_rounds = 2
    /\ Len(rr_invoked) = 4
    /\ rr_results[3].success
    /\ ~rr_results[4].success
    /\ rr_result.final_output = rr_results[3].content

\* C19: in round-robin mode a provider fault is recorded as a failed result of
\* the agent and the run goes on with the next agent in order; the failed
\* invocation leaves the running state and the history as they were and no
\* Stop Condition is checked for it.
C19_RoundRobinFaultIsLocal ==
    [][(rr_pc = "provider" /\ Len(rr_results') > Len(rr_results)
          /\ ~rr_results'[Len(rr_results')].success) =>
         /\ Len(rr_results') = Len(rr_results) + 1
         /\ SubSeq(rr_results', 1, Len(rr_results)) = rr_results
         /\ rr_results'[Len(rr_results')].agent_name = rr_order[rr_i]
         /\ rr_results'[Len(rr_results')].content = <<>>
         /\ rr_current_input' = rr_current_input
         /\ history' = history
         /\ rr_checks' = rr_checks
         /\ rr_result' = rr_result
         /\ rr_pc' = "loop"
         /\ round_num' = (IF rr_i < Len(rr_order) THEN round_num ELSE round_num + 1)
         /\ rr_i' = (IF rr_i < Len(rr_order) THEN rr_i + 1 ELSE 1)]_vars

\* the first agent failed and the second agent was then invoked with the
\* original task as running state, and succeeded
C19_Witness ==
    /\ Len(rr_order) = 2
    /\ Len(rr_results) >= 2
    /\ ~rr_results[1].success
    /\ rr_results[2].success
    /\ rr_results[2].agent_name = rr_order[2]
    /\ rr_invoked[2].agent = "b"
    /\ rr_invoked[2].prompt = Task \o Task \o <<"1">>
    /\ Len(history) = 1

NextCont ==
    \/ ContGet
    \/ \E c \in ContOutputs : ContProviderReturns(c)
    \/ ContProviderRaises
    \/ ContDrain
    \/ ContTimeout

InitCont == AgentIdle /\ SeqIdle /\ ParIdle /\ RRIdle /\ InitContinuous /\ SessIdle /\ WfIdle

SpecCont == InitCont /\ [][NextCont]_vars

\* every next_agent of the mapping names an agent of the mapping
IsCycle(m) == \A k \in 1..Len(m) : InAgents(m, m[k].next_agent)

\* C20: in continuous mode with next_agent links that form a cycle, every
\* invocation succeeding, no Stop Condition matching and no timeout, the run
\* produces exactly max_iterations + 1 results, with iteration fields
\* 0..max_iterations in order, and nothing is queued after the last of them.
C20_ContinuousCycleIsBounded ==
    (/\ cont_pc # "idle"
     /\ IsCycle(cont_agents)
     /\ \A j \in 1..Len(cont_results) :
           /\ cont_results[j].success
           /\ ~CheckStop(cont_stop, cont_results[j])
     /\ cont_end # "timeout") =>
        /\ Len(cont_results) <= cont_max_iterations + 1
        /\ Len(cont_put) <= cont_max_iterations + 1
        /\ \A j \in 1..Len(cont_results) : cont_results[j].iteration = j - 1
        /\ \A j \in 1..Len(cont_put) : cont_put[j].iteration = j - 1
        /\ Len(cont_results) = cont_max_iterations + 1 =>
              task_queue = <<>> /\ cont_pc \in {"get", "done"}
        /\ cont_pc = "done" =>
              /\ cont_end = "drain"
              /\ Len(cont_result.results) = cont_max_iterations + 1
              /\ \A j \in 1..(cont_max_iterations + 1) :
                    cont_result.results[j].iteration = j - 1

\* a two-node cycle with max_iterations = 3 ran to the drain of the queue with
\* stop conditions configured: four results, from a, b, a, b
C20_Witness ==
    /\ cont_pc = "done"
    /\ cont_end = "drain"
    /\ Len(cont_agents) = 2
    /\ IsCycle(cont_agents)
    /\ cont_max_iterations = 3
    /\ cont_stop # <<>>
    /\ Len(cont_result.results) = 4
    /\ \A j \in 1..4 :
          /\ cont_result.results[j].success
          /\ cont_result.results[j].iteration = j - 1
          /\ cont_result.results[j].agent_name = (IF j \in {1, 3} THEN "a" ELSE "b")

\* the scheduling a continuous run can count on: a queued item is handed to the
\* waiting consumer, the 5-second poll timer fires, and the timer of
\* wait_for(process_queue(), timeout) fires; no provider has to answer
SpecContFair ==
    /\ InitCont
    /\ [][NextCont]_vars
    /\ WF_vars(ContGet)
    /\ WF_vars(ContDrain)
    /\ WF_vars(ContTimeout)

\* C21: every continuous run eventually returns a WorkflowResult, whatever the
\* providers do (answer without ever matching a Stop Condition, raise, or never
\* answer): the loop is left by a Stop Condition match, by the poll that finds
\* the queue empty, or by the overall timeout, and the result returned is built
\* from the results recorded so far.
C21_ContinuousRunReturns ==
    <>[](/\ cont_pc = "done"
         /\ cont_end \in {"stop", "drain", "timeout"}
         /\ cont_result = ContinuousResult(cont_results))

\* a run without stop conditions whose second provider call never answered
\* was ended by the overall timeout
C21_Witness ==
    /\ cont_pc = "done"
    /\ cont_end = "timeout"
    /\ cont_stop = <<>>
    /\ Len(cont_invoked) = 2
    /\ Len(cont_result.results) = 1

\* C22: in continuous mode, once a Stop Condition matches the result of a
\* successful invocation, that result is the last of the list, the run is over
\* with it, no follow-on item was put on the queue and no agent was invoked
\* after it.
C22_StopMatchEndsContinuousRun ==
    \A j \in 1..Len(cont_results) :
        (/\ cont_results[j].success
         /\ \E k \in 1..Len(cont_stop) : Check(cont_stop[k], cont_results[j])) =>
            /\ j = Len(cont_results)
            /\ cont_pc = "done"
            /\ cont_end = "stop"
            /\ Len(cont_invoked) = j
            /\ Len(cont_put) = cont_results[j].iteration + 1
            /\ task_queue = <<>>
            /\ cont_result.results = cont_results

\* the second condition of the list matched the second result of a cycle that
\* could have gone on: the run stopped there
C22_Witness ==
    /\ cont_pc = "done"
    /\ cont_end = "stop"
    /\ Len(cont_stop) = 2
    /\ IsCycle(cont_agents)
    /\ cont_max_iterations = 3
    /\ Len(cont_results) = 2
    /\ ~Check(cont_stop[1], cont_results[2])
    /\ Check(cont_stop[2], cont_results[2])
    /\ Len(cont_put) = 2

\* C23 as stated: the final_output of a continuous run is the content of the
\* last successful invocation of the result list, also when the last result is
\* a failure.
C23_ContinuousFinalOutputIsLastSuccessful ==
    cont_pc = "done" =>
        cont_result.final_output = LastSuccessfulContent(cont_results)

\* C23 as the code has it: the final_output of a continuous run is the content
\* of the last result when that result succeeded, and empty when the list is
\* empty or its last result is a failure, whatever succeeded before.
C23_ContinuousFinalOutputIsLastResultIfSuccessful ==
    cont_pc = "done" =>
        /\ cont_result.results = cont_results
        /\ cont_result.final_output =
              (IF cont_results # <<>> /\ cont_results[Len(cont_results)].success
               THEN cont_results[Len(cont_results)].content
               ELSE <<>>)

\* a run ended with a failure after a success: its final output is empty
C23_Witness ==
    /\ cont_pc = "done"
    /\ Len(cont_results) = 2
    /\ cont_results[1].success
    /\ cont_results[1].content # <<>>
    /\ ~cont_results[2].success
    /\ cont_result.final_output = <<>>

\* C24: a continuous run ends through the queue-drain check only when the
\* queue is empty and nothing can arrive any more: every item ever put was
\* taken, and no invocation is in flight that could put a follow-on item.
C24_DrainOnlyWhenNothingCanArrive ==
    cont_end = "drain" =>
        /\ cont_pc = "done"
        /\ task_queue = <<>>
        /\ Len(cont_invoked) = Len(cont_results)
        /\ item = cont_put[Len(cont_put)]

\* a chain of two agents ran to its end and the poll found the queue empty
C24_Witness ==
    /\ cont_end = "drain"
    /\ ~IsCycle(cont_agents)
    /\ Len(cont_put) = 2
    /\ Len(cont_results) = 2
    /\ cont_results[2].success

\* ----------------------------------------------------- SessionManager
\* compact_session applied, again and again, to the sessions that add_message
\* without compaction builds from these messages
MaxMessages == 4
NewMessages ==
    {SystemPromptMessage, UserMessage, AssistantMessage, ToolResultMessage}
KeepChoices == {1, 2}

Conversations == UNION { [1..n -> NewMessages] : n \in 0..MaxMessages }

InitSession ==
    /\ AgentIdle /\ SeqIdle /\ ParIdle /\ RRIdle /\ ContIdle /\ WfIdle
    /\ max_tokens = 100000
    /\ \E ms \in Conversations :
          session = [Created("s1", Str("t0", 26)) EXCEPT !.messages = ms]
    /\ files = [id \in SessionIds |-> NoFile]
    /\ loaded = NoSession
    /\ sm_call = Call("create", NoMessage, FALSE, FALSE, 0, FALSE, PyNone)

NextSession ==
    \E keep_system \in BOOLEAN, keep_last_n \in KeepChoices, summarize \in BOOLEAN :
        CompactSession(keep_system, keep_last_n, summarize, Str("t1", 26))

SpecSession == InitSession /\ [][NextSession]_vars

\* a long conversation that starts with the system prompt, on a manager whose
\* threshold one long message reaches: long user messages and system notes
\* are added with auto_compact, and compact_session is called with its
\* defaults or without the summary
MaxLongMessages == 12
LongMessages == {UserMessage, SystemNote}

InitLong ==
    /\ AgentIdle /\ SeqIdle /\ ParIdle /\ RRIdle /\ ContIdle /\ WfIdle
    /\ max_tokens = 1000
    /\ session = [Created("s1", Str("t0", 26)) EXCEPT
                     !.messages = << SystemPromptMessage >>]
    /\ files = [id \in SessionIds |-> NoFile]
    /\ loaded = NoSession
    /\ sm_call = Call("add_message", SystemPromptMessage, TRUE, FALSE, 0, FALSE, PyNone)

NextLong ==
    \/ /\ Len(session.messages) < MaxLongMessages
       /\ \E m \in LongMessages : AddMessage(m, TRUE, Str("t1", 26))
    \/ \E summarize \in BOOLEAN :
          CompactSession(TRUE, DefaultKeepLastN, summarize, Str("t1", 26))

SpecLong == InitLong /\ [][NextLong]_vars

\* sessions that are saved and loaded
MaxStored == 2
StoredMessages == {UserMessage, ToolCallMessage, ToolResultMessage}

InitStore == AgentIdle /\ SeqIdle /\ ParIdle /\ RRIdle /\ ContIdle /\ InitManager /\ WfIdle

NextStore ==
    \/ /\ Len(session.messages) < MaxStored
       /\ \E m \in StoredMessages : AddMessage(m, FALSE, Str("t1", 26))
    \/ \E now \in Now : Save(now)
    \/ \E id \in SessionIds : Load(id)

SpecStore == InitStore /\ [][NextStore]_vars

\* the messages of a list that are not system messages, in order
IsNotSystem(m) == m.role # SYSTEM
NonSystem(msgs) == SelectSeq(msgs, IsNotSystem)

\* the last n entries of a list, all of them when it has fewer
LastN(list, n) ==
    IF Len(list) <= n THEN list ELSE SubSeq(list, Len(list) - n + 1, Len(list))

\* a is b with some entries left out
RECURSIVE IsSubseq(_, _)
IsSubseq(a, b) ==
    IF a = <<>> THEN TRUE
    ELSE IF b = <<>> THEN FALSE
    ELSE IF a[1] = b[1] THEN IsSubseq(Tail(a), Tail(b))
    ELSE IsSubseq(a, Tail(b))

\* a list without its k-th entry
Without(list, k) == SubSeq(list, 1, k - 1) \o SubSeq(list, k + 1, Len(list))

\* m is a summary message that counts d removed messages
IsSummaryOf(m, d) ==
    /\ m.role = SYSTEM
    /\ Len(m.content[2]) >= 3
    /\ m.content[2][1] = Piece("[Previous conversation summary (", 32)
    /\ << m.content[2][2] >> = IntStr(d)
    /\ m.content[2][3] = Piece(" messages)]\n", 12)

\* C25 as stated: a compact_session call that follows a compact_session call
\* with the same arguments (the defaults among them) leaves the message list
\* of the session as it is.
C25_CompactionIsIdempotent ==
    [][(sm_call.op = "compact_session" /\ sm_call' = sm_call) =>
          session'.messages = session.messages]_vars

\* C26 as stated: a compact_session call with keep_system = True on a session
\* of more than keep_last_n messages keeps every system message and, of the
\* other messages, exactly the keep_last_n most recent (all when there are
\* fewer), in order.
C26_KeepsLastNNonSystem ==
    [][(/\ sm_call'.op = "compact_session"
        /\ sm_call'.keep_system
        /\ Len(session.messages) > sm_call'.keep_last_n) =>
          /\ NonSystem(session'.messages) =
                LastN(NonSystem(session.messages), sm_call'.keep_last_n)
          /\ IsSubseq(SelectSeq(session.messages, LAMBDA m : m.role = SYSTEM),
                      session'.messages)]_vars

\* C27: a compact_session call with summarize that drops d >= 1 messages adds
\* exactly one message, the summary of d messages, right after the first kept
\* message when that is a system message and at the front otherwise, and
\* records d as context.removed_messages; a call that drops nothing, or is
\* made without summarize, adds no message, and a call on a session of at
\* most keep_last_n messages changes nothing.
C27_SummaryPlacementAndCount ==
    [][sm_call'.op = "compact_session" =>
        LET old == session.messages
            new == session'.messages
            recorded == PyGet(session'.context, REMOVED_MESSAGES, PyNone)
        IN IF Len(old) <= sm_call'.keep_last_n THEN session' = session
           ELSE IF sm_call'.summarize
           THEN \/ new = old /\ recorded = PyInt(0)
                \/ \E k \in {1, 2} :
                      LET kept == Without(new, k)
                          d == Len(old) - Len(kept)
                      IN /\ k <= Len(new)
                         /\ d >= 1
                         /\ IsSummaryOf(new[k], d)
                         /\ IsSubseq(kept, old)
                         /\ k = (IF kept # <<>> /\ kept[1].role = SYSTEM THEN 2 ELSE 1)
                         /\ recorded = PyInt(d)
           ELSE /\ IsSubseq(new, old)
                /\ recorded = PyInt(Len(old) - Len(new))]_vars

\* the summary of the three messages dropped stands right after the system
\* prompt, with the lines of the user and the assistant message among them
C27_Witness ==
    /\ sm_call.op = "compact_session"
    /\ sm_call.summarize
    /\ Len(session.messages) = 2
    /\ session.messages[1] = SystemPromptMessage
    /\ IsSummaryOf(session.messages[2], 3)
    /\ Len(session.messages[2].content[2]) = 10
    /\ PyGet(session.context, REMOVED_MESSAGES, PyNone) = PyInt(3)

\* C28: a session whose first message is the system prompt keeps it as its
\* first message through every add_message with auto_compact and every
\* compact_session with keep_system = True.
C28_SystemPromptStaysFirst ==
    /\ session.messages # <<>>
    /\ session.messages[1] = SystemPromptMessage

\* after several compactions with summaries and dropped messages the system
\* prompt is still first, followed by the latest summary
C28_Witness ==
    /\ session.messages[1] = SystemPromptMessage
    /\ Len(session.messages) = 11
    /\ IsSummaryOf(session.messages[2], 2)
    /\ IsSummaryOf(session.messages[3], 2)
    /\ IsSummaryOf(session.messages[4], 1)
    /\ session.messages[11] = UserMessage

\* C29 as stated: after add_message(session, m) with auto_compact the message
\* m is the last message of the session.
C29_AddedMessageIsLast ==
    (sm_call.op = "add_message" /\ sm_call.auto_compact) =>
        /\ session.messages # <<>>
        /\ session.messages[Len(session.messages)] = sm_call.message

\* C30: a load of the session's id right after its save returns a session
\* whose metadata and whose messages, field by field and in order, are those
\* of the saved session.
C30_SaveLoadRoundTrip ==
    [][(/\ sm_call.op = "save"
        /\ sm_call'.op = "load"
        /\ sm_call'.id = session.metadata.id) =>
          /\ loaded'.metadata = session.metadata
          /\ loaded'.messages = session.messages
          /\ Len(loaded'.messages) = Len(session.messages)]_vars

\* a saved session of a tool call and its result was loaded back with the
\* message_count and updated_at that save set
C30_Witness ==
    /\ sm_call.op = "load"
    /\ loaded.metadata = session.metadata
    /\ loaded.metadata.message_count = PyInt(2)
    /\ loaded.metadata.updated_at = Str("t2", 26)
    /\ loaded.messages = << ToolCallMessage, ToolResultMessage >>

\* ------------------------------------------ specification: workflow engine
InitWf ==
    /\ AgentIdle /\ SeqIdle /\ ParIdle /\ RRIdle /\ ContIdle /\ SessIdle
    /\ InitEngine

NextWf ==
    \/ \E data \in WorkflowEntries : LoadWorkflow(data)
    \/ \E wf \in BuiltWorkflows : BuildWorkflow(wf)
    \/ ExecuteWorkflow
    \/ \E iter \in 0..MaxIteration : CallCheckStop(iter)

SpecWf == InitWf /\ [][NextWf]_vars

\* the role the mapping holds under a name
RoleNamed(name) == roles[CHOOSE k \in 1..Len(roles) : roles[k].name = name]

\* C31: once the role mapping is built, the role of every step in it has as
\* next_agent the agent name of the following step; the last step's is the
\* first step's agent name in continuous mode and unset in every other mode
C31_NextAgentFollowsSteps ==
    wf_pc \in {"running", "no_agents"} =>
        \A i \in 1..Len(workflow.steps) :
            (\E k \in 1..Len(roles) : roles[k].name = workflow.steps[i].agent) =>
                RoleNamed(workflow.steps[i].agent).next_agent =
                    IF i < Len(workflow.steps) THEN workflow.steps[i + 1].agent
                    ELSE IF workflow.mode = "continuous" THEN workflow.steps[1].agent
                    ELSE "<None>"

\* the threshold configured for condition k: the one the definition gives
\* under value or threshold, or the value the caller built it with; 10
\* without one
ConfiguredThreshold(k) ==
    IF definition = NoDefinition
    THEN IF workflow.stop_conditions[k].has_value
         THEN workflow.stop_conditions[k].value ELSE 10
    ELSE LET d == definition.stop_conditions[k]
         IN IF "value" \in DOMAIN d THEN d["value"]
            ELSE IF "threshold" \in DOMAIN d THEN d["threshold"]
            ELSE 10

\* C32: a max_iterations condition matches a result exactly when the result's
\* iteration is at least the configured threshold, 0 included, and 10 when
\* none is configured
C32_MaxIterationsMatchesFromThreshold ==
    \A k \in 1..Len(wf_check.matches) :
        workflow.stop_conditions[k].type = "max_iterations" =>
            (wf_check.matches[k] <=> wf_check.iteration >= ConfiguredThreshold(k))

\* ------------------------------------------- claims on the Conversation State
ConversationState ==
    <<messages, iteration, tool_calls_this_turn, is_complete, last_response>>

\* the position of the user message the current task began with, 0 without one
TaskStart ==
    LET U == {j \in 1..Len(messages) : messages[j].role = "user"}
    IN IF U = {} THEN 0 ELSE CHOOSE j \in U : \A k \in U : k <= j

\* the number of messages of a role appended since the task began
SinceTaskStart(role) ==
    Cardinality({j \in (TaskStart + 1)..Len(messages) : messages[j].role = role})

\* the content of the last assistant message without tool calls, None without one
LastFinalContent ==
    LET F == {j \in 1..Len(messages) :
                 messages[j].role = "assistant" /\ messages[j].tool_calls = <<>>}
    IN IF F = {} THEN NoneText
       ELSE messages[CHOOSE j \in F : \A k \in F : k <= j].content

IsPrefixOf(a, b) == Len(a) <= Len(b) /\ a = SubSeq(b, 1, Len(a))

\* the Conversation State _process_turn leaves for the response (c, tcs)
AfterProcessTurn(c, tcs) ==
    << Append(messages, Message("assistant", c, "<None>", tcs, 0)),
       iteration,
       tool_calls_this_turn,
       IF tcs = <<>> THEN TRUE ELSE is_complete,
       IF tcs = <<>> THEN c ELSE last_response >>

AttemptedCalls ==
    SinceTaskStart("tool")
      + (IF pc \in {"confirm", "handler"} THEN 1 ELSE 0)
      + (IF event = "confirm_fault" THEN 1 ELSE 0)

\* the task is running or has just ended
InTask ==
    \/ pc # "idle"
    \/ event \in {"return", "provider_fault", "stream_fault", "stream_fault_partial",
                   "confirm_fault"}

\* C34 as stated: tool_calls_this_turn goes back to zero (or down) only in the
\* step that starts process_message, and during a task it is the number of
\* tool calls attempted since the task began
C34_CounterZeroedOnlyByProcessMessage ==
    /\ [](InTask => tool_calls_this_turn = AttemptedCalls)
    /\ [][tool_calls_this_turn' < tool_calls_this_turn => event' = "process_message"]_vars

\* C34 amended: the counter goes down only at the start of process_message
\* and in reset(), which replaces the whole AgentState between tasks; during a
\* task it is the number of tool calls attempted since the task began and no
\* step of the task after its first lowers it
C34_CounterCountsAttemptsOfTheTask ==
    /\ [](InTask => tool_calls_this_turn = AttemptedCalls)
    /\ [][tool_calls_this_turn' < tool_calls_this_turn =>
              event' \in {"process_message", "reset"}]_vars
    /\ [][pc # "idle" => tool_calls_this_turn' >= tool_calls_this_turn]_vars

\* in its second round-trip the task has counted two attempted calls, one of
\* them to a name that is not registered
C34_Witness ==
    /\ pc = "for" /\ iteration = 2
    /\ tool_calls_this_turn = 2
    /\ \E j \in 1..Len(messages) :
          messages[j].role = "tool" /\ messages[j].name = "nosuch"

\* the tool calls of the assistant message at position j are answered, one to
\* one and in order, by the tool messages that follow it
Answered(j) ==
    LET tcs == messages[j].tool_calls
    IN /\ j + Len(tcs) <= Len(messages)
       /\ \A i \in 1..Len(tcs) :
             /\ messages[j + i].role = "tool"
             /\ messages[j + i].tool_call_id = tcs[i].id
       /\ j + Len(tcs) < Len(messages) => messages[j + Len(tcs) + 1].role # "tool"

\* C37: whenever a completion is requested, every assistant message of the
\* history has its tool calls answered one to one and in order by the tool
\* messages after it, and every tool message answers a call of the assistant
\* message before it
C37_ToolCallsAnsweredAtEveryRequest ==
    event = "request" =>
        /\ \A j \in 1..Len(messages) : messages[j].role = "assistant" => Answered(j)
        /\ \A j \in 1..Len(messages) : messages[j].role = "tool" =>
              \E a \in 1..(j - 1) :
                  /\ messages[a].role = "assistant"
                  /\ j - a <= Len(messages[a].tool_calls)
                  /\ messages[j].tool_call_id = messages[a].tool_calls[j - a].id

\* ------------------------------------------------ claims on the orchestrator
\* C35 as stated: the results of a round-robin run are those of its
\* invocations, in the order the invocations were made, and the iteration of
\* every result, failed ones included, is its position in the list (from 0)
C35_IterationIsPosition ==
    /\ Len(rr_results) <= Len(rr_invoked)
    /\ \A j \in 1..Len(rr_results) :
          /\ rr_results[j].agent_name = rr_invoked[j].agent
          /\ rr_results[j].iteration = j - 1

\* C36: in a continuous run on a fresh orchestrator the queue never holds
\* more than one item and is empty while an invocation is in flight, at most
\* one invocation has no result yet, and after the first item every item is
\* put by the consumer in the step that records the successful result of the
\* item it took
C36_SingleConsumerQueue ==
    /\ [](/\ Len(task_queue) <= 1
          /\ cont_pc = "provider" => task_queue = <<>>
          /\ Len(cont_invoked) - Len(cont_results) \in {0, 1}
          /\ cont_pc = "provider" => Len(cont_invoked) = Len(cont_results) + 1
          /\ cont_pc = "get" => Len(cont_invoked) = Len(cont_results))
    /\ [][cont_put' # cont_put =>
            /\ cont_pc = "provider" /\ cont_pc' = "get"
            /\ task_queue = <<>>
            /\ Len(cont_results') = Len(cont_results) + 1
            /\ cont_results'[Len(cont_results')].success
            /\ cont_put' = Append(cont_put, task_queue'[1])
            /\ task_queue'[1].iteration = item.iteration + 1]_vars

\* the third item of a cycle waits in the queue, put after two invocations
C36_Witness ==
    /\ cont_pc = "get"
    /\ Len(task_queue) = 1
    /\ Len(cont_put) = 3
    /\ Len(cont_results) = 2
    /\ task_queue[1].iteration = 2

\* C38: a failed result of a continuous run is the last entry of the result
\* list; once it is recorded the queue is empty, no further invocation is
\* made, and the run ends by the queue-drain check or by the timeout
C38_FailureEndsContinuousRun ==
    \A j \in 1..Len(cont_results) :
        ~cont_results[j].success =>
            /\ j = Len(cont_results)
            /\ task_queue = <<>>
            /\ cont_pc \in {"get", "done"}
            /\ Len(cont_invoked) = Len(cont_results)
            /\ cont_pc = "done" => cont_end \in {"drain", "timeout"}

\* the second agent of a chain failed and the run ended by queue drain
C38_Witness ==
    /\ cont_pc = "done"
    /\ cont_end = "drain"
    /\ Len(cont_results) = 2
    /\ cont_results[1].success
    /\ ~cont_results[2].success
    /\ Len(cont_invoked) = 2
    /\ Len(cont_put) = 2

\* C39: a compact_session call leaves a message list that is not longer than
\* the one it was given and that is, but for the one summary message it may
\* have inserted, the given list with some messages left out: what is kept
\* is unaltered and in its order
C39_CompactionOnlyRemoves ==
    [][sm_call'.op = "compact_session" =>
        LET old == session.messages
            new == session'.messages
        IN /\ Len(new) <= Len(old)
           /\ \/ IsSubseq(new, old)
              \/ \E k \in 1..Len(new) :
                    /\ IsSummaryOf(new[k], Len(old) - Len(new) + 1)
                    /\ IsSubseq(Without(new, k), old)]_vars

\* two messages were dropped: the system prompt, their summary and the kept
\* tool message remain, in this order
C39_Witness ==
    /\ sm_call.op = "compact_session"
    /\ Len(session.messages) = 3
    /\ session.messages[1] = SystemPromptMessage
    /\ IsSummaryOf(session.messages[2], 2)
    /\ session.messages[3] = ToolResultMessage

====
